---- MODULE Spec2Model ----
(***************************************************************************)
(* Snapshot synchronisation of skaled: the btrfs snapshot manager          *)
(* (libskale/SnapshotManager.cpp) and the snapshot hash agent              *)
(* (libskale/SnapshotHashAgent.cpp).                                       *)
(*                                                                         *)
(* SpecSM        the snapshot manager working on one data directory        *)
(* SpecDiff      the snapshot manager making and importing diffs           *)
(* SpecPrune     the snapshot manager keeping and pruning snapshots        *)
(* SpecSync      a snapshot made on one node and imported on another       *)
(* SpecAgent     the hash agent of a small network, several rounds         *)
(* SpecAgentMid  the hash agent of a network of six, one round             *)
(* SpecAgentWide the hash agent of a wider network, one round              *)
(* SpecDb        two rotating stores (libdevcore/ManuallyRotatingLevelDB)  *)
(* SpecTracer    the tracepoints of SkaleDebugTracer and their caller      *)
(***************************************************************************)
EXTENDS Integers, Sequences, FiniteSets, TLC

\* ------------------------------------------------------------------ bounds
\* Block numbers are 0..MaxBlock, volume contents 0..MaxContent.
MaxBlock == 1
MaxContent == 1
\* Calls made on one SnapshotManager (writes of the node included).
MaxCalls == 3
\* Calls made on a SnapshotManager that makes and imports diffs.
DiffCalls == 3
\* Calls made on the two SnapshotManagers of a download.
SyncCalls == 5
\* Calls of getNodesToDownloadSnapshotFrom made on one agent.
MaxRounds == 2

VARIABLES
    \* ---- SnapshotManager: the data directory
    live,        \* data_dir/<vol>: content of the live volume, or Absent
    snapDir,     \* the block numbers b for which snapshots_dir/b exists
    clone,       \* snapshots_dir/b/<vol>: content of the clone, or Absent
    hashFile,    \* snapshots_dir/b/snapshot_hash.txt: the hash, or NoFile
    diffFile,    \* diffs_dir/b: the assembled stream, or NoFile
    partFile,    \* the pairs <<b, vol>> for which diffs_dir/b_<vol> exists
    writable,    \* the pairs <<b, vol>> whose clone has the property ro=false
    taken,       \* per block: what doSnapshot cloned when it made the snapshot
    hashedBy,    \* per block: "build" or "check", the pass that wrote the hash
    origin,      \* the block and hash of the node a diff was downloaded from
    lastOp,      \* the last call made on the manager and how it ended
    callsLeft,   \* calls still to be made on the manager
    seqStage,    \* how far the calls doSnapshot, removeSnapshot, doSnapshot
                 \* on block lastOp.b have got (0: not in that sequence)
    hashIo,      \* a thread in computeSnapshotHash and a thread reading the
                 \* hash, step by step: who holds hash_file_mutex, where
                 \* each thread is, and what the reader saw last
    \* ---- ManuallyRotatingLevelDB
    stores,      \* two stores: of each its `pieces`, front first, and its
                 \* current_piece_file_no
    \* ---- SnapshotHashAgent
    n_,          \* number of nodes of the chain
    hashes_, signatures_, public_keys_,   \* the slots, one per node ordinal
    nodes_to_download_snapshot_from_,     \* sequence of node ordinals
    voted_hash_,                          \* <<hash, common signature>>
    task,        \* per node ordinal: "none", "running" or "done" (the thread);
                 \* where the writes are followed one by one, "hash_written"
                 \* and "signature_written" while it holds hashes_mutex, and
                 \* "hung" when its peer never answers
    reported,    \* per node ordinal: what the peer answered in this round
    phase,       \* "Idle", "Collecting" or "Done"
    round,       \* how the last finished call ended
    roundsLeft,  \* calls still to be made
    zeroTripleVerifies, \* what Bls::Verification answers on a default triple
    \* ---- SkaleDebugTracer
    tracer       \* one tracepoint_struct, the threads that pass it and the
                 \* thread that gives the trace commands

fsVars == <<live, snapDir, clone, hashFile, diffFile, partFile, writable>>
managerVars == <<fsVars, taken, hashedBy, origin, lastOp, seqStage, callsLeft, hashIo>>
dbVars == <<stores>>
debugVars == <<tracer>>
smVars == <<managerVars, dbVars, debugVars>>
agentVars == <<n_, hashes_, signatures_, public_keys_,
               nodes_to_download_snapshot_from_, voted_hash_, task, reported,
               phase, round, roundsLeft, zeroTripleVerifies>>
restVars == <<origin, agentVars, dbVars, hashIo, debugVars>>
vars == <<smVars, agentVars>>

\* ================================================================ manager
\* A volume, a clone or a file is the set of what it holds: empty when it
\* is not there, else the one content.
Absent == {}
NoFile == {}
Holding(c) == {c}
Blocks == 0..MaxBlock
Contents == 0..MaxContent

\* The volumes handed to the constructor, in order, and the data directory.
volumes == <<"db", "filestorage">>
VolumeSet == {volumes[i] : i \in 1..Len(volumes)}
data_dir == "data_dir"

\* ---- the file storage tree
\* The volume "filestorage" holds a directory and a regular file beside it;
\* each of the two can have its sidecar <path>._hash. The content of the
\* volume is what the file holds and, per entry, what its sidecar holds.
Entries == {"dir", "file"}
IsRegularFile(e) == e = "file"
NoSidecars == [e \in Entries |-> NoFile]
Tree(c, sc) == [data |-> c, sidecar |-> sc]
\* boost::filesystem::recursive_directory_iterator visits the entries of a
\* directory in an order that is not specified.
TraversalOrders == {<<"dir", "file">>, <<"file", "dir">>}

\* it->path().string() of an entry of the file storage clone of snapshot b
PathOf(b, e) == <<data_dir, "snapshots", b, "filestorage", e>>
\* sha256 is kept as what was hashed: the path and the content of a file,
\* the path of a directory, the key/value pairs of a database
FileHash(path, c) == [path |-> path, content |-> c]
DirectoryHash(path) == [path |-> path, content |-> -1]
hashBase(db, c) == [path |-> <<db>>, content |-> c]
\* secp256k1_sha256_finalize: the digest of all that was written to ctx
SnapshotDigest(ctx) == [sha256 |-> ctx]

\* fs::exists( snapshots_dir / to_string( b ) )
SnapshotExists(b) == b \in snapDir

\* No thread in computeSnapshotHash, none reading, the lock free.
IdleWriter == [pc |-> "idle", b |-> -1, hash |-> NoFile, is_checking |-> FALSE]
IdleReader == [pc |-> "idle", b |-> -1]
NothingSeen == [op |-> "none", b |-> -1, res |-> "ok", ret |-> "none"]
IdleIo == [mutex |-> "free", writer |-> IdleWriter, reader |-> IdleReader,
           seen |-> NothingSeen]

\* What a call leaves in lastOp: the call, how it ended ("ok" or the
\* exception) and what it returned (for leaveNLastSnapshots, its argument
\* and the snapshot directories it removed; for leaveNLastDiffs, its argument
\* and the diff files it removed; for a computeSnapshotHash that
\* found the hash file, "present"). The `fault` a call is given is the number
\* of its btrfs command that the environment makes fail (0: none, -1: the
\* mkdir or the cat of the call).
Call(op, b, res, ret) == [op |-> op, b |-> b, res |-> res, ret |-> ret]

\* No clone of any volume.
NoClones == [v \in VolumeSet |-> Absent]
\* The clones of block b that are in cl, as pairs of `writable`.
ClonesOf(b, cl) == {<<b, v>> : v \in {u \in VolumeSet : cl[u] # Absent}}
AllClonesOf(b) == {<<b, v>> : v \in VolumeSet}

\* ---- doSnapshot
\* The loop over the volumes from the i-th on: btrfs subvolume snapshot -r
\* of data_dir/vol into snapshot_dir. The command fails when the environment
\* makes it fail, when the source is missing or when the target exists.
RECURSIVE SnapshotLoop(_, _, _)
SnapshotLoop(i, cl, fault) ==
    IF i > Len(volumes) THEN [cl |-> cl, ok |-> TRUE]
    ELSE LET v == volumes[i] IN
         IF fault = i \/ live[v] = Absent \/ cl[v] # Absent
         THEN [cl |-> cl, ok |-> FALSE]
         ELSE SnapshotLoop(i + 1, [cl EXCEPT ![v] = live[v]], fault)

\* doSnapshot without its test of the snapshot directory
doSnapshotNoPresentCheck(b) == FALSE
\* if ( fs::exists( snapshot_dir ) ) throw SnapshotPresent
doSnapshotPresentCheck(b) == SnapshotExists(b)

doSnapshot(b, fault) ==
    IF doSnapshotPresentCheck(b)
    THEN /\ lastOp' = Call("doSnapshot", b, "SnapshotPresent", "none")
         /\ seqStage' = IF seqStage = 2 /\ lastOp.b = b /\ lastOp.res = "ok" THEN 3 ELSE 0
         /\ UNCHANGED <<fsVars, taken, hashedBy>>
    ELSE IF fault = -1
    THEN /\ lastOp' = Call("doSnapshot", b, "CannotCreate", "none")
         /\ seqStage' = 0
         /\ UNCHANGED <<fsVars, taken, hashedBy>>
    ELSE \E r \in {SnapshotLoop(1, clone[b], fault)} :
         /\ snapDir' = snapDir \cup {b}
         /\ clone' = [clone EXCEPT ![b] = r.cl]
         /\ taken' = [taken EXCEPT ![b] = r.cl]
         /\ lastOp' = Call("doSnapshot", b,
                IF r.ok THEN "ok" ELSE "CannotPerformBtrfsOperation", "none")
         /\ seqStage' = IF fault # 0 THEN 0
                        ELSE IF seqStage = 2 /\ lastOp.b = b /\ lastOp.res = "ok" THEN 3
                        ELSE 1
         /\ UNCHANGED <<live, hashFile, diffFile, partFile, writable, hashedBy>>

\* ---- removeSnapshot
\* The loop over the volumes from the i-th on: btrfs subvolume delete of
\* snapshots_dir/b/vol, which fails on a clone that is not there.
RECURSIVE DeleteLoop(_, _, _)
DeleteLoop(i, cl, fault) ==
    IF i > Len(volumes) THEN [cl |-> cl, ok |-> TRUE]
    ELSE LET v == volumes[i] IN
         IF fault = i \/ cl[v] = Absent
         THEN [cl |-> cl, ok |-> FALSE]
         ELSE DeleteLoop(i + 1, [cl EXCEPT ![v] = Absent], fault)

removeSnapshot(b, fault) ==
    IF ~SnapshotExists(b)
    THEN /\ lastOp' = Call("removeSnapshot", b, "SnapshotAbsent", "none")
         /\ seqStage' = 0
         /\ UNCHANGED <<fsVars, taken, hashedBy>>
    ELSE \E r \in {DeleteLoop(1, clone[b], fault)} :
         /\ clone' = [clone EXCEPT ![b] = r.cl]
         /\ writable' = writable \ (AllClonesOf(b) \ ClonesOf(b, r.cl))
         /\ lastOp' = Call("removeSnapshot", b,
                IF r.ok THEN "ok" ELSE "CannotPerformBtrfsOperation", "none")
         /\ seqStage' = IF fault = 0 /\ seqStage = 1 /\ lastOp.b = b /\ lastOp.res = "ok"
                        THEN 2 ELSE 0
         /\ UNCHANGED <<live, snapDir, hashFile, diffFile, partFile, taken, hashedBy>>

\* ---- restoreSnapshot
\* Per volume: btrfs subvolume delete of the live volume (command 2i-1), then
\* btrfs subvolume snapshot of the clone into data_dir (command 2i).
RECURSIVE RestoreLoop(_, _, _, _)
RestoreLoop(i, lv, cl, fault) ==
    IF i > Len(volumes) THEN [lv |-> lv, ok |-> TRUE]
    ELSE LET v == volumes[i] IN
         IF fault = 2 * i - 1 \/ lv[v] = Absent
         THEN [lv |-> lv, ok |-> FALSE]
         ELSE IF fault = 2 * i \/ cl[v] = Absent
         THEN [lv |-> [lv EXCEPT ![v] = Absent], ok |-> FALSE]
         ELSE RestoreLoop(i + 1, [lv EXCEPT ![v] = cl[v]], cl, fault)

restoreSnapshot(b, fault) ==
    IF ~SnapshotExists(b)
    THEN /\ lastOp' = Call("restoreSnapshot", b, "SnapshotAbsent", "none")
         /\ seqStage' = 0
         /\ UNCHANGED <<fsVars, taken, hashedBy>>
    ELSE \E r \in {RestoreLoop(1, live, clone[b], fault)} :
         /\ live' = r.lv
         /\ lastOp' = Call("restoreSnapshot", b,
                IF r.ok THEN "ok" ELSE "CannotPerformBtrfsOperation", "none")
         /\ seqStage' = 0
         /\ UNCHANGED <<snapDir, clone, hashFile, diffFile, partFile, writable,
                        taken, hashedBy>>

\* ---- the hash file
\* an isSnapshotHashPresent that does not look for the snapshot directory
isSnapshotHashPresentNoDirectoryTest(b) == IF hashFile[b] # NoFile THEN "true" ELSE "false"
\* isSnapshotHashPresent: "SnapshotAbsent", or whether the hash file exists.
isSnapshotHashPresentResult(b) ==
    IF ~SnapshotExists(b) THEN "SnapshotAbsent"
    ELSE IF hashFile[b] # NoFile THEN "true" ELSE "false"

isSnapshotHashPresent(b) ==
    LET r == isSnapshotHashPresentResult(b) IN
    /\ lastOp' = IF r = "SnapshotAbsent"
                 THEN Call("isSnapshotHashPresent", b, "SnapshotAbsent", "none")
                 ELSE Call("isSnapshotHashPresent", b, "ok", r)
    /\ seqStage' = 0
    /\ UNCHANGED <<fsVars, taken, hashedBy>>

getSnapshotHash(b) ==
    /\ lastOp' = IF ~SnapshotExists(b)
                 THEN Call("getSnapshotHash", b, "SnapshotAbsent", "none")
                 ELSE IF isSnapshotHashPresentResult(b) # "true"
                 THEN Call("getSnapshotHash", b, "CannotRead", "none")
                 ELSE Call("getSnapshotHash", b, "ok", hashFile[b])
    /\ seqStage' = 0
    /\ UNCHANGED <<fsVars, taken, hashedBy>>

\* ---- proceedFileSystemDirectory
\* The walk over the file storage clone of snapshot b from the i-th entry of
\* `order` on. `sc` are the sidecars, `ctx` what has been written to the
\* running digest. Sidecar files themselves are passed over.
\* a build pass that leaves out of ctx an entry whose sidecar it had to write
WriteIfSidecarWasThere(ctx, was, kept) ==
    IF was = NoFile THEN ctx ELSE Append(ctx, CHOOSE h \in kept : TRUE)
\* hash_file >> hash; secp256k1_sha256_write( ctx, hash ): after the sidecar
\* was written where it was missing (`was`: the sidecar as the pass found it)
WriteSidecarToCtx(ctx, was, kept) == Append(ctx, CHOOSE h \in kept : TRUE)

RECURSIVE proceedFileSystemDirectory(_, _, _, _, _, _, _)
proceedFileSystemDirectory(i, order, b, data, sc, ctx, is_checking) ==
    IF i > Len(order) THEN [sidecar |-> sc, ctx |-> ctx]
    ELSE LET e == order[i]
             fresh == IF IsRegularFile(e) THEN FileHash(PathOf(b, e), data)
                      ELSE DirectoryHash(PathOf(b, e))
         IN IF is_checking
            THEN \* computed anew, written to ctx and to the sidecar
                 proceedFileSystemDirectory(i + 1, order, b, data,
                     [sc EXCEPT ![e] = Holding(fresh)], Append(ctx, fresh), is_checking)
            ELSE \* the sidecar is written when it is not there; what the
                 \* sidecar holds is read back and written to ctx
                 LET kept == IF sc[e] = NoFile THEN Holding(fresh) ELSE sc[e]
                 IN proceedFileSystemDirectory(i + 1, order, b, data,
                        [sc EXCEPT ![e] = kept],
                        WriteSidecarToCtx(ctx, sc[e], kept), is_checking)

\* ---- computeAllVolumesHash
\* hashBase of the two databases of volumes[0], then the file storage tree.
\* Gives the clones of b as the walk leaves them, and ctx.
computeAllVolumesHash(b, order, is_checking) ==
    LET db == CHOOSE c \in clone[b][volumes[1]] : TRUE
        tree == CHOOSE t \in clone[b]["filestorage"] : TRUE
        ctx == <<hashBase("12041/state", db), hashBase("blocks_and_extras", db)>>
        walk == proceedFileSystemDirectory(1, order, b, tree.data, tree.sidecar, ctx,
                                           is_checking)
    IN [cl |-> [clone[b] EXCEPT !["filestorage"] = Holding(Tree(tree.data, walk.sidecar))],
        ctx |-> walk.ctx]

\* ---- computeSnapshotHash
\* The loop over the volumes from the i-th on: btrfs property set ro of the
\* clone (command base + i), which fails on a clone that is not there.
RECURSIVE PropertySetLoop(_, _, _, _, _, _)
PropertySetLoop(i, b, ro, w, fault, base) ==
    IF i > Len(volumes) THEN [w |-> w, ok |-> TRUE]
    ELSE LET v == volumes[i] IN
         IF fault = base + i \/ clone[b][v] = Absent
         THEN [w |-> w, ok |-> FALSE]
         ELSE PropertySetLoop(i + 1, b, ro,
                  IF ro THEN w \ {<<b, v>>} ELSE w \cup {<<b, v>>}, fault, base)

\* a computeSnapshotHash that computes whether or not the hash is there
computeSnapshotHashNeverSkips(b) == FALSE
\* if ( this->isSnapshotHashPresent( _blockNumber ) ) return
computeSnapshotHashSkips(b) == isSnapshotHashPresentResult(b) = "true"

\* Fault Len(volumes) + 1 is a database of the clone that cannot be opened.
computeSnapshotHash(b, is_checking, order, fault) ==
    /\ seqStage' = 0
    /\ UNCHANGED <<live, snapDir, diffFile, partFile, taken>>
    /\ IF isSnapshotHashPresentResult(b) = "SnapshotAbsent"
       THEN /\ lastOp' = Call("computeSnapshotHash", b, "SnapshotAbsent", "none")
            /\ UNCHANGED <<clone, hashFile, writable, hashedBy>>
       ELSE IF computeSnapshotHashSkips(b)
       THEN /\ lastOp' = Call("computeSnapshotHash", b, "ok", "present")
            /\ UNCHANGED <<clone, hashFile, writable, hashedBy>>
       ELSE \E s1 \in {PropertySetLoop(1, b, FALSE, writable, fault, 0)} :
            IF ~s1.ok
            THEN /\ lastOp' = Call("computeSnapshotHash", b,
                                   "CannotPerformBtrfsOperation", "none")
                 /\ writable' = s1.w
                 /\ UNCHANGED <<clone, hashFile, hashedBy>>
            ELSE IF fault = Len(volumes) + 1
            THEN /\ lastOp' = Call("computeSnapshotHash", b, "DatabaseError", "none")
                 /\ writable' = s1.w
                 /\ UNCHANGED <<clone, hashFile, hashedBy>>
            ELSE \E h \in {computeAllVolumesHash(b, order, is_checking)},
                    s2 \in {PropertySetLoop(1, b, TRUE, s1.w, fault, Len(volumes) + 1)} :
                    /\ clone' = [clone EXCEPT ![b] = h.cl]
                    /\ writable' = s2.w
                    /\ IF ~s2.ok
                       THEN /\ lastOp' = Call("computeSnapshotHash", b,
                                              "CannotPerformBtrfsOperation", "none")
                            /\ UNCHANGED <<hashFile, hashedBy>>
                       ELSE /\ lastOp' = Call("computeSnapshotHash", b, "ok", "none")
                            /\ hashFile' = [hashFile EXCEPT ![b] =
                                               Holding(SnapshotDigest(h.ctx))]
                            /\ hashedBy' = [hashedBy EXCEPT ![b] =
                                               IF is_checking THEN "check" ELSE "build"]

\* The node writing to a live volume between the calls. While the manager is
\* used the node writes its database; the file storage changes by downloads
\* only, which are not part of these runs.
WrittenVolumes == {volumes[1]}

WriteVolume(v, c) ==
    /\ live[v] # Absent
    /\ live[v] # Holding(c)
    /\ live' = [live EXCEPT ![v] = Holding(c)]
    /\ lastOp' = Call("write", 0, "ok", "none")
    /\ seqStage' = 0
    /\ UNCHANGED <<snapDir, clone, hashFile, diffFile, partFile, writable,
                   taken, hashedBy>>

\* ---- makeOrGetDiff
\* The loop over the volumes from the i-th on: btrfs send of the clone into
\* diffs_dir/b_<vol>. The part file is there even when the command fails.
\* `created` is the list of the part files so far, `stream` what they hold.
\* btrfs send refuses a clone that is missing or not read-only.
RECURSIVE SendLoop(_, _, _, _, _)
SendLoop(i, b, created, stream, fault) ==
    IF i > Len(volumes) THEN [created |-> created, stream |-> stream, ok |-> TRUE]
    ELSE LET v == volumes[i] IN
         IF fault = i \/ clone[b][v] = Absent \/ <<b, v>> \in writable
         THEN [created |-> created \cup {<<b, v>>}, stream |-> stream, ok |-> FALSE]
         ELSE SendLoop(i + 1, b, created \cup {<<b, v>>},
                       Append(stream, <<v, clone[b][v]>>), fault)

\* a makeOrGetDiff that does not look for the file it made earlier
DiffNotCached(b) == FALSE
\* if ( fs::is_regular( path ) ) return path
DiffCached(b) == diffFile[b] # NoFile

\* a clean-up that leaves the part files where they are
KeepParts(parts, created) == parts \cup created
\* for ( vol : created ) fs::remove( vol ), after a failed send
RemoveParts(parts, created) == parts \ created

makeOrGetDiff(b, fault) ==
    /\ seqStage' = 0
    /\ UNCHANGED <<live, snapDir, clone, hashFile, writable, taken, hashedBy>>
    /\ IF DiffCached(b)
       THEN /\ lastOp' = Call("makeOrGetDiff", b, "ok", "path")
            /\ UNCHANGED <<diffFile, partFile>>
       ELSE IF ~SnapshotExists(b)
       THEN /\ lastOp' = Call("makeOrGetDiff", b, "SnapshotAbsent", "none")
            /\ UNCHANGED <<diffFile, partFile>>
       ELSE \E r \in {SendLoop(1, b, {}, <<>>, fault)} :
            IF ~r.ok
            THEN \* fs::remove( path ) and of every part file created
                 /\ diffFile' = [diffFile EXCEPT ![b] = NoFile]
                 /\ partFile' = RemoveParts(partFile \cup r.created, r.created)
                 /\ lastOp' = Call("makeOrGetDiff", b, "CannotPerformBtrfsOperation",
                                   "none")
            ELSE \* system( "cat parts >path" ): the shell creates path before
                 \* cat runs; fault -1 is cat ending with an error
                 /\ diffFile' = [diffFile EXCEPT ![b] =
                                   Holding(IF fault = -1 THEN <<>> ELSE r.stream)]
                 /\ partFile' = (partFile \cup r.created) \ r.created
                 /\ lastOp' = IF fault = -1
                              THEN Call("makeOrGetDiff", b, "CannotWrite", "none")
                              ELSE Call("makeOrGetDiff", b, "ok", "path")

\* ---- importDiff
\* btrfs receive of diffs_dir/b into snapshots_dir/b: one clone per stream
\* of the file. A file that holds no stream of a volume leaves none.
Received(stream) ==
    [v \in VolumeSet |->
        IF \E j \in 1..Len(stream) : stream[j][1] = v
        THEN stream[CHOOSE j \in 1..Len(stream) : stream[j][1] = v][2]
        ELSE Absent]

\* the two tests in the other order
importDiffRefusalSnapshotFirst(b) ==
    IF SnapshotExists(b) THEN "SnapshotPresent"
    ELSE IF diffFile[b] = NoFile THEN "InvalidPath" ELSE "none"
\* if ( !fs::is_regular_file( diffPath ) ) throw InvalidPath;
\* if ( fs::exists( snapshot_dir ) ) throw SnapshotPresent
importDiffRefusal(b) ==
    IF diffFile[b] = NoFile THEN "InvalidPath"
    ELSE IF SnapshotExists(b) THEN "SnapshotPresent" ELSE "none"

\* a failed receive after which the directory made for it is left
SnapshotDirLeft(dirs, b) == dirs \cup {b}
\* fs::create_directory( snapshot_dir ), then, the receive having failed,
\* fs::remove_all( snapshot_dir )
SnapshotDirRemoved(dirs, b) == (dirs \cup {b}) \ {b}

importDiff(b, fault) ==
    /\ seqStage' = 0
    /\ UNCHANGED <<live, hashFile, diffFile, partFile, writable, hashedBy>>
    /\ IF importDiffRefusal(b) # "none"
       THEN /\ lastOp' = Call("importDiff", b, importDiffRefusal(b), "none")
            /\ UNCHANGED <<snapDir, clone, taken>>
       ELSE IF fault = -1
       THEN /\ lastOp' = Call("importDiff", b, "CannotCreate", "none")
            /\ UNCHANGED <<snapDir, clone, taken>>
       ELSE IF fault = 1 \/ diffFile[b] = Holding(<<>>)
       THEN \* receive failed: fs::remove_all( snapshot_dir )
            /\ lastOp' = Call("importDiff", b, "CannotPerformBtrfsOperation", "none")
            /\ snapDir' = SnapshotDirRemoved(snapDir, b)
            /\ UNCHANGED <<clone, taken>>
       ELSE /\ snapDir' = snapDir \cup {b}
            /\ clone' = [clone EXCEPT ![b] = Received(CHOOSE st \in diffFile[b] : TRUE)]
            /\ taken' = [taken EXCEPT ![b] = NoClones]
            /\ lastOp' = Call("importDiff", b, "ok", "none")

\* ---- the names of the snapshot directories
\* std::to_string of a block number: its decimal digits
RECURSIVE to_string(_)
to_string(k) == IF k < 10 THEN <<k>> ELSE to_string(k \div 10) \o <<k % 10>>
\* std::stoi of such a name
RECURSIVE stoi(_)
stoi(s) == IF Len(s) = 1 THEN s[1]
           ELSE 10 * stoi(SubSeq(s, 1, Len(s) - 1)) + s[Len(s)]
\* for ( auto& f : fs::directory_iterator( snapshots_dir ) ) fs::basename( f )
DirectoryNames == {to_string(b) : b \in snapDir}
\* the snapshot directory of that name
BlockOfName(name) == CHOOSE b \in snapDir : to_string(b) = name
\* the keys of `numbers`: HACK We exclude 0 snapshot forcefully
NumberKeys == {stoi(name) : name \in {nm \in DirectoryNames : nm # <<0>>}}

\* the order of strings
RECURSIVE LexGreater(_, _)
LexGreater(s, t) ==
    IF s = <<>> THEN FALSE
    ELSE IF t = <<>> THEN TRUE
    ELSE IF s[1] # t[1] THEN s[1] > t[1]
    ELSE LexGreater(Tail(s), Tail(t))
\* a map ordered by the names of the directories
GreaterName(a, b) == LexGreater(to_string(a), to_string(b))
\* std::greater< int >, the order of the map `numbers`
Greater(a, b) == a > b
\* the keys of the map in its order
RECURSIVE MapOrder(_)
MapOrder(keys) ==
    IF keys = {} THEN <<>>
    ELSE LET first == CHOOSE k \in keys : \A j \in keys \ {k} : Greater(k, j)
         IN <<first>> \o MapOrder(keys \ {first})

\* ---- leaveNLastSnapshots
\* The loop over `numbers` from its j-th key on; i is the counter of the
\* code. st holds the snapshot directories, the clones, the hash files and
\* the writable clones; a deleted snapshot loses its clones one by one
\* (command `cmd` on) and then its directory with all that is in it.
RECURSIVE LeaveLoop(_, _, _, _, _, _, _)
LeaveLoop(j, order, i, n, st, cmd, fault) ==
    IF j > Len(order) THEN [st |-> st, ok |-> TRUE]
    ELSE IF ~(i > n) THEN LeaveLoop(j + 1, order, i + 1, n, st, cmd, fault)
    ELSE LET b == BlockOfName(to_string(order[j]))
             r == DeleteLoop(1, st.clone[b], fault - cmd)
             w == st.writable \ (AllClonesOf(b) \ ClonesOf(b, r.cl))
         IN IF ~r.ok
            THEN [st |-> [st EXCEPT !.clone[b] = r.cl, !.writable = w], ok |-> FALSE]
            ELSE LeaveLoop(j + 1, order, i + 1, n,
                     [snapDir |-> st.snapDir \ {b},
                      clone |-> [st.clone EXCEPT ![b] = NoClones],
                      hashFile |-> [st.hashFile EXCEPT ![b] = NoFile],
                      writable |-> w], cmd + Len(volumes), fault)

leaveNLastSnapshots(n, fault) ==
    \E r \in {LeaveLoop(1, MapOrder(NumberKeys), 1, n,
                       [snapDir |-> snapDir, clone |-> clone, hashFile |-> hashFile,
                        writable |-> writable], 0, fault)} :
       /\ snapDir' = r.st.snapDir
       /\ clone' = r.st.clone
       /\ hashFile' = r.st.hashFile
       /\ writable' = r.st.writable
       /\ taken' = [b \in DOMAIN taken |-> IF b \in r.st.snapDir THEN taken[b] ELSE NoClones]
       /\ hashedBy' = [b \in DOMAIN hashedBy |->
                          IF b \in r.st.snapDir THEN hashedBy[b] ELSE "none"]
       /\ lastOp' = Call("leaveNLastSnapshots", n,
              IF r.ok THEN "ok" ELSE "CannotPerformBtrfsOperation",
              snapDir \ r.st.snapDir)
       /\ seqStage' = 0
       /\ UNCHANGED <<live, diffFile, partFile>>

\* ---- leaveNLastDiffs
\* for ( auto& f : fs::directory_iterator( diffs_dir ) ): the names of the
\* diff files (no part file is left between two calls)
DiffNames == {to_string(b) : b \in {c \in DOMAIN diffFile : diffFile[c] # NoFile}}
DiffKeys == {stoi(name) : name \in DiffNames}
\* a loop that spares the key 0, as the one of leaveNLastSnapshots does
RemovedKeysButZero(order, n) ==
    {order[j] : j \in {k \in 1..Len(order) : k > n}} \ {0}
\* the keys of `numbers` that the loop removes: all after the n first
RemovedKeys(order, n) == {order[j] : j \in {k \in 1..Len(order) : k > n}}

leaveNLastDiffs(n) ==
    /\ diffFile' = [b \in DOMAIN diffFile |->
                       IF b \in RemovedKeys(MapOrder(DiffKeys), n) THEN NoFile
                       ELSE diffFile[b]]
    /\ lastOp' = Call("leaveNLastDiffs", n, "ok", RemovedKeys(MapOrder(DiffKeys), n))
    /\ seqStage' = 0
    /\ UNCHANGED <<live, snapDir, clone, hashFile, partFile, writable, taken, hashedBy>>

\* ---- getLatestSnasphot
\* numbers.rbegin() is the last key of the map in its order. With one key the
\* code reads *it after it++ has reached rend(): what it reads is not
\* defined; it can be any number, or the call can end in a crash.
UndefinedReads == {-1, 0, 1}
getLatestSnasphotResults ==
    LET order == MapOrder(NumberKeys) IN
    IF order = <<>> THEN {Call("getLatestSnasphot", 0, "ok", <<0, 0>>)}
    ELSE LET fst == stoi(to_string(order[Len(order)])) IN
         IF Len(order) > 1
         THEN {Call("getLatestSnasphot", 0, "ok", <<fst, 0>>)}
         ELSE {Call("getLatestSnasphot", 0, "ok", <<fst, snd>>) : snd \in UndefinedReads}
              \cup {Call("getLatestSnasphot", 0, "crash", <<fst, 0>>)}

getLatestSnasphot ==
    /\ lastOp' \in getLatestSnasphotResults
    /\ seqStage' = 0
    /\ UNCHANGED <<fsVars, taken, hashedBy>>

\* The block numbers the calls of a run are made with.
ManagedBlocks == DOMAIN clone

\* ---- the calls, each with the faults its btrfs commands can meet
DoSnapshot == \E b \in ManagedBlocks, f \in -1..Len(volumes) :
    callsLeft > 0 /\ callsLeft' = callsLeft - 1 /\ doSnapshot(b, f) /\ UNCHANGED restVars
RemoveSnapshot == \E b \in ManagedBlocks, f \in 0..Len(volumes) :
    callsLeft > 0 /\ callsLeft' = callsLeft - 1 /\ removeSnapshot(b, f) /\ UNCHANGED restVars
RestoreSnapshot == \E b \in ManagedBlocks, f \in 0..(2 * Len(volumes)) :
    callsLeft > 0 /\ callsLeft' = callsLeft - 1 /\ restoreSnapshot(b, f) /\ UNCHANGED restVars
MakeOrGetDiff == \E b \in ManagedBlocks, f \in -1..Len(volumes) :
    callsLeft > 0 /\ callsLeft' = callsLeft - 1 /\ makeOrGetDiff(b, f) /\ UNCHANGED restVars
ImportDiff == \E b \in ManagedBlocks, f \in -1..1 :
    callsLeft > 0 /\ callsLeft' = callsLeft - 1 /\ importDiff(b, f) /\ UNCHANGED restVars
ComputeSnapshotHash ==
    \E b \in ManagedBlocks, c \in BOOLEAN, o \in TraversalOrders, f \in 0..(2 * Len(volumes) + 1) :
    callsLeft > 0 /\ callsLeft' = callsLeft - 1 /\ computeSnapshotHash(b, c, o, f)
    /\ UNCHANGED restVars
GetSnapshotHash == \E b \in ManagedBlocks :
    callsLeft > 0 /\ callsLeft' = callsLeft - 1 /\ getSnapshotHash(b) /\ UNCHANGED restVars
IsSnapshotHashPresent == \E b \in ManagedBlocks :
    callsLeft > 0 /\ callsLeft' = callsLeft - 1 /\ isSnapshotHashPresent(b) /\ UNCHANGED restVars
Write == \E v \in WrittenVolumes, c \in Contents :
    callsLeft > 0 /\ callsLeft' = callsLeft - 1 /\ WriteVolume(v, c) /\ UNCHANGED restVars

\* What the live volumes can hold when a manager is constructed.
LiveAtStart ==
    {[v \in VolumeSet |-> Holding(IF v \in WrittenVolumes THEN c ELSE Tree(0, NoSidecars))] :
        c \in Contents}
NoOrigin == [b |-> -1, hash |-> NoFile]

\* The state the constructor leaves for the blocks bs, with `calls` calls
\* ahead: the live volumes exist, diffs/ has been emptied, and snapshots/
\* holds what an earlier run of the node left there: one of the sets of
\* `keeps`, each snapshot made by doSnapshot of what the live volumes hold,
\* and not hashed.
Constructed(bs, calls, keeps) ==
    /\ live \in LiveAtStart
    /\ snapDir \in keeps
    /\ clone = [b \in bs |-> IF b \in snapDir THEN live ELSE NoClones]
    /\ taken = clone
    /\ hashFile = [b \in bs |-> NoFile]
    /\ diffFile = [b \in bs |-> NoFile]
    /\ partFile = {}
    /\ writable = {}
    /\ hashedBy = [b \in bs |-> "none"]
    /\ origin = NoOrigin
    /\ lastOp = Call("construct", 0, "ok", "none")
    /\ seqStage = 0
    /\ callsLeft = calls
    /\ hashIo = IdleIo
SMInit == Constructed(Blocks, MaxCalls, {{}})

\* ---- pruning
\* A node that keeps snapshots of block 0 and of the last blocks up to
\* HighBlock, and asks to keep up to MaxKeep of them.
HighBlock == 10
MaxKeep == 2
PruneCalls == 3
PruneBlocks == {0} \cup ((HighBlock - 2)..HighBlock)
PruneInit == Constructed(PruneBlocks, PruneCalls, SUBSET PruneBlocks)

LeaveNLastSnapshots == \E n \in 0..MaxKeep, f \in 0..Len(volumes) :
    callsLeft > 0 /\ callsLeft' = callsLeft - 1 /\ leaveNLastSnapshots(n, f)
    /\ UNCHANGED restVars
LeaveNLastDiffs == \E n \in 0..MaxKeep :
    callsLeft > 0 /\ callsLeft' = callsLeft - 1 /\ leaveNLastDiffs(n) /\ UNCHANGED restVars
GetLatestSnasphot ==
    callsLeft > 0 /\ callsLeft' = callsLeft - 1 /\ getLatestSnasphot /\ UNCHANGED restVars

\* ---- a second node
\* A node downloads diffs/b of this node, whose snapshot b was made by
\* doSnapshot and hashed without is_checking: from here on the data
\* directory is the one of the downloading node, as its constructor leaves
\* it, with the downloaded file in diffs/. `origin` keeps the block and what
\* getSnapshotHash( b ) gives on the node the file came from.
Download ==
    \E b \in ManagedBlocks :
        /\ origin = NoOrigin
        /\ SnapshotExists(b)
        /\ \A v \in VolumeSet : taken[b][v] # Absent
        /\ hashFile[b] # NoFile /\ hashedBy[b] = "build"
        /\ \E st \in diffFile[b] : Len(st) = Len(volumes)
        /\ origin' = [b |-> b, hash |-> hashFile[b]]
        /\ live' \in LiveAtStart
        /\ snapDir' = {}
        /\ clone' = [c \in ManagedBlocks |-> NoClones]
        /\ hashFile' = [c \in ManagedBlocks |-> NoFile]
        /\ diffFile' = [c \in ManagedBlocks |-> IF c = b THEN diffFile[b] ELSE NoFile]
        /\ partFile' = {}
        /\ writable' = {}
        /\ taken' = [c \in ManagedBlocks |-> NoClones]
        /\ hashedBy' = [c \in ManagedBlocks |-> "none"]
        /\ lastOp' = Call("construct", 0, "ok", "none")
        /\ seqStage' = 0
        /\ UNCHANGED <<callsLeft, agentVars, dbVars, hashIo, debugVars>>

\* ---- the hash file, thread by thread
\* std::ofstream out( hash_file ) has made the file; nothing is in it yet
Unwritten == [bytes |-> 0]
\* dev::h256 hash, as declared: what `in >> hash` leaves when it reads nothing
DefaultHash == [bytes |-> 32]
Complete(hf) == hf # NoFile /\ hf # Holding(Unwritten)
\* std::ifstream in( hash_file ); in >> hash; return hash
ReadHashFile(hf) == IF Complete(hf) THEN hf ELSE Holding(DefaultHash)

\* a thread that goes to the hash file without the lock
LockNotTaken == TRUE
\* std::lock_guard< std::mutex > lock( hash_file_mutex ) can be passed
LockFree == hashIo.mutex = "free"

\* computeSnapshotHash( b, is_checking ) up to the digest: the hash is found
\* not to be there, the clones are made writable, walked and made read-only
HashWriterCompute ==
    \E b \in ManagedBlocks, c \in BOOLEAN, o \in TraversalOrders :
        /\ hashIo.writer.pc = "idle"
        /\ LockFree
        /\ isSnapshotHashPresentResult(b) = "false"
        /\ \A v \in VolumeSet : clone[b][v] # Absent /\ <<b, v>> \notin writable
        /\ \E h \in {computeAllVolumesHash(b, o, c)} :
              /\ clone' = [clone EXCEPT ![b] = h.cl]
              /\ hashIo' = [hashIo EXCEPT !.writer =
                                [pc |-> "computed", b |-> b,
                                 hash |-> Holding(SnapshotDigest(h.ctx)),
                                 is_checking |-> c]]
        /\ UNCHANGED <<live, snapDir, hashFile, diffFile, partFile, writable, taken,
                       hashedBy, origin, lastOp, seqStage, callsLeft>>
        /\ UNCHANGED <<agentVars, dbVars, debugVars>>

\* the lock taken, std::ofstream out( hash_file )
HashWriterOpen ==
    /\ hashIo.writer.pc = "computed"
    /\ LockFree
    /\ hashFile' = [hashFile EXCEPT ![hashIo.writer.b] = Holding(Unwritten)]
    /\ hashIo' = [hashIo EXCEPT !.mutex = "writer", !.writer.pc = "opened"]
    /\ UNCHANGED <<live, snapDir, clone, diffFile, partFile, writable, taken,
                   hashedBy, origin, lastOp, seqStage, callsLeft>>
    /\ UNCHANGED <<agentVars, dbVars, debugVars>>

\* out << hash, the stream closed and the lock released at the end of the try
HashWriterClose ==
    /\ hashIo.writer.pc = "opened"
    /\ hashFile' = [hashFile EXCEPT ![hashIo.writer.b] = hashIo.writer.hash]
    /\ hashedBy' = [hashedBy EXCEPT ![hashIo.writer.b] =
                        IF hashIo.writer.is_checking THEN "check" ELSE "build"]
    /\ hashIo' = [hashIo EXCEPT !.mutex = "free", !.writer = IdleWriter]
    /\ UNCHANGED <<live, snapDir, clone, diffFile, partFile, writable, taken,
                   origin, lastOp, seqStage, callsLeft>>
    /\ UNCHANGED <<agentVars, dbVars, debugVars>>

\* what a reader step leaves alone
ReaderFrame ==
    /\ UNCHANGED <<fsVars, taken, hashedBy, origin, lastOp, seqStage, callsLeft>>
    /\ UNCHANGED <<agentVars, dbVars, debugVars>>

\* isSnapshotHashPresent( b ) of the reading thread: fs::exists( hash_file )
\* under the lock
HashReaderIsPresent ==
    \E b \in ManagedBlocks :
        /\ hashIo.reader.pc = "idle"
        /\ SnapshotExists(b) => LockFree
        /\ hashIo' = [hashIo EXCEPT !.seen =
               IF isSnapshotHashPresentResult(b) = "SnapshotAbsent"
               THEN Call("isSnapshotHashPresent", b, "SnapshotAbsent", "none")
               ELSE Call("isSnapshotHashPresent", b, "ok", isSnapshotHashPresentResult(b))]
        /\ ReaderFrame

\* getSnapshotHash( b ) of the reading thread up to its own lock: the
\* directory is looked for, then isSnapshotHashPresent( b ) is called
HashReaderGet ==
    \E b \in ManagedBlocks :
        /\ hashIo.reader.pc = "idle"
        /\ SnapshotExists(b) => LockFree
        /\ hashIo' =
              IF isSnapshotHashPresentResult(b) = "SnapshotAbsent"
              THEN [hashIo EXCEPT !.seen = Call("getSnapshotHash", b, "SnapshotAbsent", "none")]
              ELSE IF isSnapshotHashPresentResult(b) = "false"
              THEN [hashIo EXCEPT !.seen = Call("getSnapshotHash", b, "CannotRead", "none")]
              ELSE [hashIo EXCEPT !.reader = [pc |-> "reading", b |-> b],
                                  !.seen = Call("getSnapshotHash", b, "running", "none")]
        /\ ReaderFrame

\* the lock taken, the file read, the hash returned
HashReaderRead ==
    /\ hashIo.reader.pc = "reading"
    /\ LockFree
    /\ hashIo' = [hashIo EXCEPT !.reader = IdleReader,
                                !.seen = Call("getSnapshotHash", hashIo.reader.b, "ok",
                                              ReadHashFile(hashFile[hashIo.reader.b]))]
    /\ ReaderFrame

\* ============================================== ManuallyRotatingLevelDB
\* The number of pieces a store is opened with, and its keys and values.
NPieces == 2
MaxKey == 1
MaxValue == 1
Keys == 0..MaxKey
Values == 1..MaxValue
StoreIds == {1, 2}

\* A piece is a LevelDB: per key its value, or NoValue.
NoValue == 0
EmptyPiece == [k \in Keys |-> NoValue]
PairsOf(piece) == {<<k, piece[k]>> : k \in {j \in Keys : piece[j] # NoValue}}
\* LevelDB::hashBase of a piece: the digest of its key/value pairs, which
\* its iterator gives in key order however they were inserted
PieceHashBase(piece) == [sha256 |-> PairsOf(piece)]

\* ManuallyRotatingLevelDB( path, nPieces ) on an empty directory: all
\* pieces have the same size, min_i is 0
OpenedStore == [pieces |-> [i \in 1..NPieces |-> EmptyPiece],
                current_piece_file_no |-> 0]

\* for ( p : pieces ) secp256k1_sha256_write( &ctx, p->hashBase() )
hashBaseOfStore(st) == [sha256 |-> [i \in 1..Len(st.pieces) |-> PieceHashBase(st.pieces[i])]]

\* forEach: all the pairs of all the pieces
StoredPairs(st) == UNION {PairsOf(st.pieces[i]) : i \in 1..Len(st.pieces)}
\* lookup: the value of the first piece that has one
lookup(st, k) ==
    IF \A i \in 1..Len(st.pieces) : st.pieces[i][k] = NoValue THEN NoValue
    ELSE st.pieces[CHOOSE i \in 1..Len(st.pieces) :
                       /\ st.pieces[i][k] # NoValue
                       /\ \A j \in 1..(i - 1) : st.pieces[j][k] = NoValue][k]

\* insert: current_piece->insert( key, value ); current_piece is the front
StoreInsert ==
    \E s \in StoreIds, k \in Keys, v \in Values :
        /\ stores' = [stores EXCEPT ![s].pieces[1][k] = v]
        /\ UNCHANGED <<managerVars, agentVars, debugVars>>

\* kill: for ( p : pieces ) p->kill( key )
StoreKill ==
    \E s \in StoreIds, k \in Keys :
        /\ stores' = [stores EXCEPT ![s].pieces =
                          [i \in 1..Len(@) |-> [@[i] EXCEPT ![k] = NoValue]]]
        /\ UNCHANGED <<managerVars, agentVars, debugVars>>

\* rotate: the piece at the back is deleted, a new one is put at the front
\* on the file number below the current one and becomes the current piece
StoreRotate ==
    \E s \in StoreIds :
        LET st == stores[s]
            old_db_no == IF st.current_piece_file_no - 1 < 0
                         THEN st.current_piece_file_no - 1 + Len(st.pieces)
                         ELSE st.current_piece_file_no - 1
        IN /\ stores' = [stores EXCEPT ![s] =
                             [pieces |-> <<EmptyPiece>> \o
                                         SubSeq(st.pieces, 1, Len(st.pieces) - 1),
                              current_piece_file_no |-> old_db_no]]
           /\ UNCHANGED <<managerVars, agentVars, debugVars>>

DbInit == stores = [s \in StoreIds |-> OpenedStore]
\* ---- the stores while the manager or the agent runs
DbUnused == stores = <<>>

\* ======================================================= SkaleDebugTracer
\* One tracepoint: the threads that pass it, the passes they make in all and
\* the break commands given for it.
NThreads == 2
MaxPasses == 3
MaxBreaks == 2
TracerThreads == 1..NThreads

\* tracepoint_struct as find_by_name makes it, the threads running and the
\* caller of the trace commands before its first command. `arrived` counts
\* the threads that came to the tracepoint while need_break was set, since
\* the last break_on_tracepoint.
TracerInit ==
    tracer = [need_break |-> FALSE, needed_waiting_count |-> 0, waiting_count |-> 0,
              pass_count |-> 0, arrived |-> 0, caller |-> "idle",
              thread |-> [t \in TracerThreads |-> "running"],
              breaksLeft |-> MaxBreaks]
\* ---- the tracer while the manager, the agent or the stores run
TracerUnused == tracer = <<>>

\* a failed assert ends the process
Aborted == tracer.caller = "aborted"

\* break_on_tracepoint( name, count ), under thread_mutex
BreakOnTracepoint ==
    \E count \in 1..NThreads :
        /\ tracer.caller = "idle"
        /\ tracer.breaksLeft > 0
        /\ tracer' = IF tracer.need_break
                     THEN [tracer EXCEPT !.caller = "aborted"]
                     ELSE [tracer EXCEPT !.need_break = TRUE,
                                         !.needed_waiting_count = count,
                                         !.arrived = 0,
                                         !.caller = "armed",
                                         !.breaksLeft = @ - 1]
        /\ UNCHANGED <<managerVars, agentVars, dbVars>>

\* wait_for_tracepoint( name ): caller_mutex taken, caller_cond.wait( lock2 )
\* releases it and blocks
WaitForTracepoint ==
    /\ tracer.caller = "armed"
    /\ tracer' = [tracer EXCEPT !.caller = "waiting"]
    /\ UNCHANGED <<managerVars, agentVars, dbVars>>

\* caller_cond.notify_all(): wakes the caller if it is in caller_cond.wait
NotifyCaller(tr) == IF tr.caller = "waiting" THEN "notified" ELSE tr.caller

\* tracepoint( name ) of thread t, under thread_mutex up to thread_cond.wait
Tracepoint ==
    \E t \in TracerThreads :
        /\ ~Aborted
        /\ tracer.thread[t] = "running"
        /\ tracer.pass_count < MaxPasses
        /\ tracer' =
              IF ~tracer.need_break
              THEN [tracer EXCEPT !.pass_count = @ + 1]
              ELSE IF tracer.waiting_count + 1 = tracer.needed_waiting_count
              THEN [tracer EXCEPT !.pass_count = @ + 1,
                                  !.waiting_count = @ + 1,
                                  !.arrived = @ + 1,
                                  !.need_break = FALSE,
                                  !.caller = NotifyCaller(tracer),
                                  !.thread[t] = "blocked"]
              ELSE [tracer EXCEPT !.pass_count = @ + 1,
                                  !.waiting_count = @ + 1,
                                  !.arrived = @ + 1,
                                  !.thread[t] = "blocked"]
        /\ UNCHANGED <<managerVars, agentVars, dbVars>>

\* caller_cond.wait returns to wait_for_tracepoint, which returns
WaitForTracepointReturns ==
    /\ tracer.caller = "notified"
    /\ tracer' = [tracer EXCEPT !.caller = "returned"]
    /\ UNCHANGED <<managerVars, agentVars, dbVars>>

\* continue_on_tracepoint( name ), under thread_mutex: thread_cond.notify_all()
ContinueOnTracepoint ==
    /\ tracer.caller = "returned"
    /\ tracer' = IF tracer.need_break
                 THEN [tracer EXCEPT !.caller = "aborted"]
                 ELSE [tracer EXCEPT !.caller = "idle",
                          !.thread = [t \in TracerThreads |->
                                         IF @[t] = "blocked" THEN "woken" ELSE @[t]]]
    /\ UNCHANGED <<managerVars, agentVars, dbVars>>

\* thread_cond.wait returns to tracepoint, which returns: the thread runs on
TracepointReturns ==
    \E t \in TracerThreads :
        /\ ~Aborted
        /\ tracer.thread[t] = "woken"
        /\ tracer' = [tracer EXCEPT !.thread[t] = "running"]
        /\ UNCHANGED <<managerVars, agentVars, dbVars>>

\* std::condition_variable::wait is called without a predicate and may
\* return without any notification
SpuriousWakeOfCaller ==
    /\ tracer.caller = "waiting"
    /\ tracer' = [tracer EXCEPT !.caller = "notified"]
    /\ UNCHANGED <<managerVars, agentVars, dbVars>>
SpuriousWakeOfThread ==
    \E t \in TracerThreads :
        /\ ~Aborted
        /\ tracer.thread[t] = "blocked"
        /\ tracer' = [tracer EXCEPT !.thread[t] = "woken"]
        /\ UNCHANGED <<managerVars, agentVars, dbVars>>

\* ================================================================== agent
\* Sizes of the networks checked, and the place of this node in the list.
\* With NMid nodes the quorum 3k > 2n asks for one node more than the
\* threshold t of the signature scheme; with NWide nodes a quorum is left
\* when one of the other nodes is missing. MaxNodes is the largest of the
\* chains of all sizes, MaxCount the largest node count the threshold is
\* computed for.
NSmall == 4
MaxNodes == 6
MaxCount == 64
NMid == 6
NWide == 7
SelfIndex == 0

\* chain_params_.sChain.nodes[i], i = 0..n_-1, and chain_params_.nodeInfo.id
Node(i) == [id |-> 100 + i, ip |-> i, port |-> 1231]
nodeInfoId == Node(SelfIndex).id
Ordinals == 0..(n_ - 1)
IsSelf(i) == nodeInfoId = Node(i).id
Peers == {i \in Ordinals : ~IsSelf(i)}

\* "http://" + ip + ":" + ( port + 3 )
Endpoint(i) == <<"http", Node(i).ip, Node(i).port + 3>>

\* ---- hashes and curve points
\* dev::h256(): the all-zero hash. The order of the hashes is their order as
\* keys of the std::map of the tally.
ZeroHash == "H0"
HashRank(h) == CASE h = "H0" -> 0 [] h = "H1" -> 1 [] h = "H2" -> 2
\* A point of G1 is a signature: of message msg, made by the holder `by`
\* with a key of kind `key`. A point of G2 is the public key of a holder.
\* Default-constructed points are the zero points.
ZeroG1 == [msg |-> "-", by |-> -1, key |-> "zero"]
ZeroG2 == [of |-> -1, key |-> "zero"]

\* What a peer can answer to skale_getSnapshotSignature and skale_imaInfo:
\* "genuine": a share made with its share of the common key;
\* "rogue":   a signature and a public key that match each other, made with
\*            a key that is no share of the common key;
\* "forged":  a signature that does not match the public key sent with it.
Answers == {[hash |-> "H1", kind |-> "genuine"], [hash |-> "H2", kind |-> "genuine"],
            [hash |-> "H1", kind |-> "rogue"], [hash |-> "H1", kind |-> "forged"]}
NoAnswer == [hash |-> "-", kind |-> "none"]
Failed == [hash |-> "-", kind |-> "fail"]

SignatureOf(i, a) ==
    [msg |-> a.hash, by |-> i,
     key |-> CASE a.kind = "genuine" -> "share"
               [] a.kind = "rogue" -> "rogue"
               [] a.kind = "forged" -> "bogus"]
PublicKeyOf(i, a) ==
    [of |-> i, key |-> IF a.kind = "rogue" THEN "rogue" ELSE "share"]

\* signatures::Bls::Verification of a share against the public key of its
\* holder; on the default triple the answer is the library's.
Verification(h, sig, pk) ==
    IF sig.key = "zero" /\ pk.key = "zero" THEN zeroTripleVerifies
    ELSE sig.msg = h /\ sig.by = pk.of /\ sig.key = pk.key

\* a threshold that rounds 2n/3 down
ThresholdRoundedDown(n) == (2 * n) \div 3
\* ( 2 * n_ + 2 ) / 3, the t of signatures::Bls( t, n )
Threshold(n) == (2 * n + 2) \div 3

\* Bls::LagrangeCoeffs and Bls::SignatureRecover: they throw on fewer than t
\* participants; the recovered point is the common signature of the message
\* when all the shares are shares of the common key over that message.
RecoverThrows(idx) == Len(idx) < Threshold(n_)
SignatureRecover(sigs) ==
    [msg |-> IF \A j \in 1..Len(sigs) : sigs[j].msg = sigs[1].msg
             THEN sigs[1].msg ELSE "mixed",
     by |-> -2,
     key |-> IF \A j \in 1..Len(sigs) : sigs[j].key = "share"
             THEN "common" ELSE "garbage"]

\* a verification of the common signature that looks at the message only
VerificationCommonAnyKey(h, sig) == sig.msg = h
\* Bls::Verification against common_public, the key of the configuration
VerificationCommon(h, sig) == sig.msg = h /\ sig.key = "common"

\* verifyAllData that verifies nothing
VerifyNoData == TRUE
\* ---- verifyAllData: every slot but this node's is verified
VerifyAllData == \A i \in Peers : Verification(hashes_[i], signatures_[i], public_keys_[i])

\* ---- voteForHash
\* map_hash[hashes_[i]] += 1 over the slots of the other nodes
MapHash == [h \in {hashes_[i] : i \in Peers} |-> Cardinality({i \in Peers : hashes_[i] = h})]
\* a quorum of more than half of the nodes, and one of more than a third
EnoughVotesMajority(count, n) == 2 * count > n
EnoughVotesThird(count, n) == 3 * count > n
\* a quorum measured against the number of the other nodes
EnoughVotesOfOthers(count, n) == 3 * count > 2 * (n - 1)
\* the test of the find_if
EnoughVotes(count, n) == 3 * count > 2 * n
\* the hashes find_if can stop at; it stops at the first in key order
Candidates == {h \in DOMAIN MapHash : EnoughVotes(MapHash[h], n_)}
Winner == CHOOSE h \in Candidates : \A g \in Candidates : HashRank(h) <= HashRank(g)

\* the loop without its comparison of hashes_[i] with the chosen hash
RECURSIVE ContributorsAnyHash(_, _)
ContributorsAnyHash(i, h) ==
    IF i >= n_ THEN <<>>
    ELSE IF ~IsSelf(i)
    THEN <<i>> \o ContributorsAnyHash(i + 1, h)
    ELSE ContributorsAnyHash(i + 1, h)
\* the ordinals pushed to nodes_to_download_snapshot_from_, in loop order
RECURSIVE Contributors(_, _)
Contributors(i, h) ==
    IF i >= n_ THEN <<>>
    ELSE IF ~IsSelf(i) /\ hashes_[i] = h
    THEN <<i>> \o Contributors(i + 1, h)
    ELSE Contributors(i + 1, h)

\* an index list that holds the ordinals as they are, counted from 0
LagrangeIndexFromZero(i) == i
\* idx.push_back( i + 1 ): the participants of the scheme count from 1
LagrangeIndex(i) == i + 1
\* the vectors idx and signatures, filled in the loop of the contributors
idx(contrib) == [j \in 1..Len(contrib) |-> LagrangeIndex(contrib[j])]
signatures(contrib) == [j \in 1..Len(contrib) |-> signatures_[contrib[j]]]

\* the common signature of the round
CommonSignature(contrib) ==
    IF RecoverThrows(idx(contrib)) THEN ZeroG1 ELSE SignatureRecover(signatures(contrib))

\* what the call returns: the endpoints of nodes_to_download_snapshot_from_
Endpoints(list) == [j \in 1..Len(list) |-> Endpoint(list[j])]

Ended(outcome, ret) ==
    [outcome |-> outcome, ret |-> ret, first |-> round.first,
     votedBefore |-> round.votedBefore, listBefore |-> round.listBefore]

\* ---- getNodesToDownloadSnapshotFrom
\* The call starts: one thread per other node.
StartRound ==
    /\ phase \in {"Idle", "Done"}
    /\ roundsLeft > 0
    /\ roundsLeft' = roundsLeft - 1
    /\ phase' = "Collecting"
    /\ task' = [i \in Ordinals |-> IF IsSelf(i) THEN "none" ELSE "running"]
    /\ reported' = [i \in Ordinals |-> NoAnswer]
    /\ round' = [outcome |-> "running", ret |-> <<>>,
                 first |-> (round.outcome = "none"),
                 votedBefore |-> voted_hash_,
                 listBefore |-> nodes_to_download_snapshot_from_]
    /\ UNCHANGED <<n_, hashes_, signatures_, public_keys_,
                   nodes_to_download_snapshot_from_, voted_hash_, zeroTripleVerifies>>
    /\ UNCHANGED smVars

\* The thread of node i: both calls answered and decoded, the three slots
\* written under hashes_mutex.
TaskAnswer ==
    \E i \in Peers, a \in Answers :
        /\ phase = "Collecting"
        /\ task[i] = "running"
        /\ hashes_' = [hashes_ EXCEPT ![i] = a.hash]
        /\ signatures_' = [signatures_ EXCEPT ![i] = SignatureOf(i, a)]
        /\ public_keys_' = [public_keys_ EXCEPT ![i] = PublicKeyOf(i, a)]
        /\ task' = [task EXCEPT ![i] = "done"]
        /\ reported' = [reported EXCEPT ![i] = a]
        /\ UNCHANGED <<n_, nodes_to_download_snapshot_from_, voted_hash_, phase,
                       round, roundsLeft, zeroTripleVerifies>>
        /\ UNCHANGED smVars

\* The thread of node i when its peer answers skale_getSnapshotSignature with
\* the hash 0x00..00 and its share over that hash: dev::h256( str_hash ) is
\* dev::h256(), and the three slots are written as for any other answer.
ZeroAnswer == [hash |-> ZeroHash, kind |-> "genuine"]
TaskAnswerZero ==
    \E i \in Peers :
        /\ phase = "Collecting"
        /\ task[i] = "running"
        /\ hashes_' = [hashes_ EXCEPT ![i] = ZeroAnswer.hash]
        /\ signatures_' = [signatures_ EXCEPT ![i] = SignatureOf(i, ZeroAnswer)]
        /\ public_keys_' = [public_keys_ EXCEPT ![i] = PublicKeyOf(i, ZeroAnswer)]
        /\ task' = [task EXCEPT ![i] = "done"]
        /\ reported' = [reported EXCEPT ![i] = ZeroAnswer]
        /\ UNCHANGED <<n_, nodes_to_download_snapshot_from_, voted_hash_, phase,
                       round, roundsLeft, zeroTripleVerifies>>
        /\ UNCHANGED smVars

\* The thread of node i: a call or the decoding threw; the exception is
\* caught and printed, nothing is written.
TaskFail ==
    \E i \in Peers :
        /\ phase = "Collecting"
        /\ task[i] = "running"
        /\ task' = [task EXCEPT ![i] = "done"]
        /\ reported' = [reported EXCEPT ![i] = Failed]
        /\ UNCHANGED <<n_, hashes_, signatures_, public_keys_,
                       nodes_to_download_snapshot_from_, voted_hash_, phase,
                       round, roundsLeft, zeroTripleVerifies>>
        /\ UNCHANGED smVars

\* ---- the threads, write by write
\* const std::lock_guard< std::mutex > lock( this->hashes_mutex ), held by
\* the thread that is between its first and its last write
HoldsMutex(i) == task[i] \in {"hash_written", "signature_written"}
MutexFree == \A i \in Ordinals : ~HoldsMutex(i)

\* Both calls answered and decoded, the lock taken: this->hashes_[i] = ...
TaskWriteHash ==
    \E i \in Peers, a \in Answers :
        /\ task[i] = "running"
        /\ MutexFree
        /\ hashes_' = [hashes_ EXCEPT ![i] = a.hash]
        /\ task' = [task EXCEPT ![i] = "hash_written"]
        /\ reported' = [reported EXCEPT ![i] = a]
        /\ UNCHANGED <<n_, signatures_, public_keys_, nodes_to_download_snapshot_from_,
                       voted_hash_, phase, round, roundsLeft, zeroTripleVerifies>>
        /\ UNCHANGED smVars

\* this->signatures_[i] = signature
TaskWriteSignature ==
    \E i \in Peers :
        /\ task[i] = "hash_written"
        /\ signatures_' = [signatures_ EXCEPT ![i] = SignatureOf(i, reported[i])]
        /\ task' = [task EXCEPT ![i] = "signature_written"]
        /\ UNCHANGED <<n_, hashes_, public_keys_, nodes_to_download_snapshot_from_,
                       voted_hash_, reported, phase, round, roundsLeft,
                       zeroTripleVerifies>>
        /\ UNCHANGED smVars

\* this->public_keys_[i] = public_key, and the lock released as the thread ends
TaskWritePublicKey ==
    \E i \in Peers :
        /\ task[i] = "signature_written"
        /\ public_keys_' = [public_keys_ EXCEPT ![i] = PublicKeyOf(i, reported[i])]
        /\ task' = [task EXCEPT ![i] = "done"]
        /\ UNCHANGED <<n_, hashes_, signatures_, nodes_to_download_snapshot_from_,
                       voted_hash_, reported, phase, round, roundsLeft,
                       zeroTripleVerifies>>
        /\ UNCHANGED smVars

\* The peer of node i never answers skale_getSnapshotSignature: the thread
\* stays in the call.
TaskHang ==
    \E i \in Peers :
        /\ task[i] = "running"
        /\ task' = [task EXCEPT ![i] = "hung"]
        /\ UNCHANGED <<n_, hashes_, signatures_, public_keys_,
                       nodes_to_download_snapshot_from_, voted_hash_, reported, phase,
                       round, roundsLeft, zeroTripleVerifies>>
        /\ UNCHANGED smVars

\* a caller that goes on to vote without waiting for the threads
NotWaitedFor(i) == TRUE
\* a join that gives up on a thread that stays in its call
JoinedOrGivenUp(i) == task[i] \in {"none", "done", "hung"}
\* for ( auto& thr : threads ) thr.join(): the thread of node i has ended
\* (no thread is made for this node)
Joined(i) == task[i] \in {"none", "done"}

\* a voteForHash that writes to_vote before it verifies the common signature
to_voteBeforeVerification(verified, h, sig) == <<h, sig>>
\* to_vote.first = ( *it ).first; to_vote.second = common_signature, reached
\* only past the Verification of the common signature; to_vote is voted_hash_
to_vote(verified, h, sig) == IF verified THEN <<h, sig>> ELSE voted_hash_

\* ---- getVotedHash
\* return this->voted_hash_ (behind an assert that it is not the default pair)
getVotedHash == voted_hash_
\* assert( voted_hash_.first != dev::h256() &&
\*         voted_hash_.second != libff::alt_bn128_G1::zero() && ... )
getVotedHashAssertion == voted_hash_[1] # ZeroHash /\ voted_hash_[2] # ZeroG1

\* All threads joined: voteForHash( voted_hash_ ) and the return.
JoinAndVote ==
    /\ phase = "Collecting"
    /\ \A i \in Ordinals : Joined(i)
    /\ phase' = "Done"
    /\ UNCHANGED <<n_, hashes_, signatures_, public_keys_, task, reported,
                   roundsLeft, zeroTripleVerifies>>
    /\ UNCHANGED smVars
    /\ IF ~VerifyAllData
       THEN /\ round' = Ended("verification_error", <<>>)
            /\ UNCHANGED <<nodes_to_download_snapshot_from_, voted_hash_>>
       ELSE IF Candidates = {}
       THEN /\ round' = Ended("not_enough_votes", <<>>)
            /\ UNCHANGED <<nodes_to_download_snapshot_from_, voted_hash_>>
       ELSE LET contrib == Contributors(0, Winner)
                list == nodes_to_download_snapshot_from_ \o contrib
                common_signature == CommonSignature(contrib)
            IN /\ nodes_to_download_snapshot_from_' = list
               /\ voted_hash_' = to_vote(VerificationCommon(Winner, common_signature),
                                         Winner, common_signature)
               /\ round' = IF ~VerificationCommon(Winner, common_signature)
                           THEN Ended("returned_false", <<>>)
                           ELSE Ended("returned", Endpoints(list))

\* The agent as constructed for a chain of n nodes, with `rounds` calls ahead.
AgentInit(n, rounds) ==
    /\ n_ = n
    /\ hashes_ = [i \in 0..(n - 1) |-> ZeroHash]
    /\ signatures_ = [i \in 0..(n - 1) |-> ZeroG1]
    /\ public_keys_ = [i \in 0..(n - 1) |-> ZeroG2]
    /\ nodes_to_download_snapshot_from_ = <<>>
    /\ voted_hash_ = <<ZeroHash, ZeroG1>>
    /\ task = [i \in 0..(n - 1) |-> "none"]
    /\ reported = [i \in 0..(n - 1) |-> NoAnswer]
    /\ phase = "Idle"
    /\ round = [outcome |-> "none", ret |-> <<>>, first |-> FALSE,
                votedBefore |-> <<ZeroHash, ZeroG1>>, listBefore |-> <<>>]
    /\ roundsLeft = rounds
    /\ zeroTripleVerifies \in BOOLEAN

\* ---- the manager while only the agent runs
SMUnused ==
    /\ live = [v \in VolumeSet |-> Absent]
    /\ snapDir = {}
    /\ clone = [b \in Blocks |-> [v \in VolumeSet |-> Absent]]
    /\ hashFile = [b \in Blocks |-> NoFile]
    /\ diffFile = [b \in Blocks |-> NoFile]
    /\ partFile = {}
    /\ writable = {}
    /\ taken = [b \in Blocks |-> NoClones]
    /\ hashedBy = [b \in Blocks |-> "none"]
    /\ origin = NoOrigin
    /\ lastOp = Call("none", 0, "ok", "none")
    /\ seqStage = 0
    /\ callsLeft = 0
    /\ hashIo = IdleIo

NextAgent ==
    \/ StartRound
    \/ TaskAnswer
    \/ TaskFail
    \/ JoinAndVote

InitAgent == AgentInit(NSmall, MaxRounds) /\ SMUnused /\ DbUnused /\ TracerUnused
SpecAgent == InitAgent /\ [][NextAgent]_vars

\* The round with the writes of its threads followed one by one, and with
\* peers that may never answer.
TaskProgress == TaskWriteHash \/ TaskWriteSignature \/ TaskWritePublicKey \/ TaskFail
NextAgentThreads ==
    \/ StartRound
    \/ TaskWriteHash
    \/ TaskWriteSignature
    \/ TaskWritePublicKey
    \/ TaskFail
    \/ TaskHang
    \/ JoinAndVote
InitAgentThreads == AgentInit(NSmall, 1) /\ SMUnused /\ DbUnused /\ TracerUnused
SpecAgentThreads == InitAgentThreads /\ [][NextAgentThreads]_vars
\* Every thread whose peer answers or whose call raises gets to its end, and
\* the calling thread runs once its joins return.
SpecAgentThreadsFair ==
    SpecAgentThreads /\ WF_vars(TaskProgress) /\ WF_vars(JoinAndVote)

\* Chains of every size from one node to MaxNodes, one round each.
InitAgentSizes == (\E n \in 1..MaxNodes : AgentInit(n, 1)) /\ SMUnused /\ DbUnused /\ TracerUnused
SpecAgentSizes == InitAgentSizes /\ [][NextAgent]_vars

\* One round in which a peer may also report the all-zero hash.
NextAgentZero ==
    \/ StartRound
    \/ TaskAnswer
    \/ TaskAnswerZero
    \/ TaskFail
    \/ JoinAndVote
InitAgentZero == AgentInit(NSmall, 1) /\ SMUnused /\ DbUnused /\ TracerUnused
SpecAgentZero == InitAgentZero /\ [][NextAgentZero]_vars

InitAgentMid == AgentInit(NMid, 1) /\ SMUnused /\ DbUnused /\ TracerUnused
SpecAgentMid == InitAgentMid /\ [][NextAgent]_vars

InitAgentWide == AgentInit(NWide, 1) /\ SMUnused /\ DbUnused /\ TracerUnused
SpecAgentWide == InitAgentWide /\ [][NextAgent]_vars

\* ---- the agent while only the manager runs
AgentUnused ==
    /\ n_ = 0
    /\ hashes_ = <<>> /\ signatures_ = <<>> /\ public_keys_ = <<>>
    /\ nodes_to_download_snapshot_from_ = <<>>
    /\ voted_hash_ = <<>>
    /\ task = <<>> /\ reported = <<>>
    /\ phase = "Idle" /\ round = <<>> /\ roundsLeft = 0
    /\ zeroTripleVerifies = FALSE

\* Two stores opened empty, written and rotated independently.
InitDb == DbInit /\ SMUnused /\ AgentUnused /\ TracerUnused
NextDb ==
    \/ StoreInsert
    \/ StoreKill
    \/ StoreRotate
SpecDb == InitDb /\ [][NextDb]_vars

\* The tracepoint, the threads that pass it and the caller that gives
\* break, wait and continue in this order, MaxBreaks times.
InitTracer == TracerInit /\ SMUnused /\ AgentUnused /\ DbUnused
NextTracer ==
    \/ BreakOnTracepoint
    \/ WaitForTracepoint
    \/ Tracepoint
    \/ WaitForTracepointReturns
    \/ ContinueOnTracepoint
    \/ TracepointReturns
    \/ SpuriousWakeOfCaller
    \/ SpuriousWakeOfThread
SpecTracer == InitTracer /\ [][NextTracer]_vars
\* A thread that a notification has woken gets its mutex and returns.
SpecTracerFair ==
    SpecTracer /\ WF_vars(WaitForTracepointReturns) /\ WF_vars(TracepointReturns)

\* A node restarted with snapshots kept: one thread computes their hashes
\* while another asks for them.
InitHashIo == Constructed(Blocks, 0, SUBSET Blocks) /\ AgentUnused /\ DbUnused /\ TracerUnused
NextHashIo ==
    \/ HashWriterCompute
    \/ HashWriterOpen
    \/ HashWriterClose
    \/ HashReaderIsPresent
    \/ HashReaderGet
    \/ HashReaderRead
SpecHashIo == InitHashIo /\ [][NextHashIo]_vars

InitSM == SMInit /\ AgentUnused /\ DbUnused /\ TracerUnused
NextSM ==
    \/ DoSnapshot
    \/ RemoveSnapshot
    \/ RestoreSnapshot
    \/ MakeOrGetDiff
    \/ ImportDiff
    \/ ComputeSnapshotHash
    \/ GetSnapshotHash
    \/ IsSnapshotHashPresent
    \/ LeaveNLastSnapshots
    \/ Write
SpecSM == InitSM /\ [][NextSM]_vars

\* A node restarted with snapshots kept, which makes and imports diffs.
InitDiff == Constructed(Blocks, DiffCalls, SUBSET Blocks) /\ AgentUnused /\ DbUnused /\ TracerUnused
NextDiff ==
    \/ DoSnapshot
    \/ RemoveSnapshot
    \/ LeaveNLastSnapshots
    \/ MakeOrGetDiff
    \/ ImportDiff
    \/ LeaveNLastDiffs
SpecDiff == InitDiff /\ [][NextDiff]_vars

InitPrune == PruneInit /\ AgentUnused /\ DbUnused /\ TracerUnused
NextPrune ==
    \/ DoSnapshot
    \/ RemoveSnapshot
    \/ RestoreSnapshot
    \/ LeaveNLastSnapshots
    \/ GetLatestSnasphot
SpecPrune == InitPrune /\ [][NextPrune]_vars

NextSync ==
    \/ DoSnapshot
    \/ ComputeSnapshotHash
    \/ MakeOrGetDiff
    \/ Download
    \/ ImportDiff
InitSync == Constructed(Blocks, SyncCalls, {{}}) /\ AgentUnused /\ DbUnused /\ TracerUnused
SpecSync == InitSync /\ [][NextSync]_vars

\* ================================================================== claims
\* ---- C1
\* Claim C1: from a state in which snapshot b does not exist, the calls
\* doSnapshot(b), removeSnapshot(b), doSnapshot(b), made one after the other
\* with no btrfs command failing by the environment, all end without error;
\* the second doSnapshot(b) does not raise SnapshotPresent(b).
C1_DoRemoveDoSucceeds == seqStage >= 2 => lastOp.res = "ok"

\* ---- C2
\* Claim C2: after removeSnapshot(b) has succeeded snapshot b does not exist
\* any more: its directory, its hash file and its clones are gone (so that
\* the calls that test the directory raise SnapshotAbsent(b)).
C2_RemovedSnapshotIsGone ==
    (lastOp.op = "removeSnapshot" /\ lastOp.res = "ok") =>
        /\ ~SnapshotExists(lastOp.b)
        /\ hashFile[lastOp.b] = NoFile
        /\ \A v \in VolumeSet : clone[lastOp.b][v] = Absent

\* ---- C3
\* Claim C3: doSnapshot(b) called while snapshot b exists raises
\* SnapshotPresent(b) and changes neither the snapshots, nor their clones,
\* nor the hash files, nor the diffs, nor the live volumes.
C3_DoSnapshotOnExisting ==
    [][\A b \in Blocks :
        (lastOp'.op = "doSnapshot" /\ lastOp'.b = b /\ SnapshotExists(b)) =>
            (lastOp'.res = "SnapshotPresent" /\ UNCHANGED fsVars)]_vars
\* doSnapshot(b) has raised SnapshotPresent on a snapshot with clones
C3_Witness ==
    /\ lastOp.op = "doSnapshot" /\ lastOp.res = "SnapshotPresent"
    /\ SnapshotExists(lastOp.b)
    /\ \A v \in VolumeSet : clone[lastOp.b][v] # Absent

\* ---- what a round was given, read from the answers of the peers
RoundOver == phase = "Done"
Answered(i) == reported[i].kind \in {"genuine", "rogue", "forged"}
ValidAnswer(i) == reported[i].kind \in {"genuine", "rogue"}
Reporters(h) == {i \in Peers : Answered(i) /\ reported[i].hash = h}
SlotHolders(h) == {i \in Peers : hashes_[i] = h}
AllHashes == {"H0", "H1", "H2"}
Quorum(k) == 3 * k > 2 * n_
Established == round.outcome = "returned"
NothingRecorded ==
    /\ voted_hash_ = round.votedBefore
    /\ nodes_to_download_snapshot_from_ = round.listBefore
RetSet == {round.ret[j] : j \in 1..Len(round.ret)}

\* ---- C4
\* Claim C4: a hash H becomes the voted hash of a round only if the number k
\* of the other nodes whose slot holds H has 3k > 2n; when no hash has it,
\* the round establishes no voted hash.
C4_VotedHashHasQuorum ==
    RoundOver =>
        /\ (Established \/ voted_hash_ # round.votedBefore) =>
               Quorum(Cardinality(SlotHolders(voted_hash_[1])))
        /\ (\A h \in AllHashes : ~Quorum(Cardinality(SlotHolders(h)))) =>
               (~Established /\ voted_hash_ = round.votedBefore)
\* a round has established H1, held by the slots of all other nodes
C4_Witness ==
    /\ RoundOver /\ Established /\ voted_hash_[1] = "H1"
    /\ Quorum(Cardinality(SlotHolders("H1")))

\* ---- C5
\* Claim C5: in the first round of an agent in which every other node answers
\* with a valid share, if k of them report the same hash H with 3k > 2n and
\* the common signature verifies (all k shares are shares of the common key),
\* then the vote succeeds with voted hash H and the call returns the
\* endpoints of the nodes that reported H, one entry for each and no other.
C5_QuorumReturnsItsReporters ==
    (RoundOver /\ round.first /\ \A i \in Peers : ValidAnswer(i)) =>
        \A h \in AllHashes :
            (Quorum(Cardinality(Reporters(h)))
             /\ \A i \in Reporters(h) : reported[i].kind = "genuine") =>
                /\ Established
                /\ voted_hash_[1] = h
                /\ Len(round.ret) = Cardinality(Reporters(h))
                /\ RetSet = {Endpoint(i) : i \in Reporters(h)}
\* such a round: all but one report H1, one reports H2
C5_Witness ==
    /\ RoundOver /\ round.first /\ Established
    /\ \A i \in Peers : reported[i].kind = "genuine"
    /\ Cardinality(Reporters("H1")) = n_ - 2
    /\ Cardinality(Reporters("H2")) = 1

C8_ForgedShareAborts ==
    (RoundOver /\ \E i \in Peers : reported[i].kind = "forged") =>
        (round.outcome = "verification_error" /\ NothingRecorded /\ round.ret = <<>>)
\* a forged share beside enough genuine shares on the same hash for a quorum
C8_Witness ==
    /\ RoundOver /\ round.outcome = "verification_error"
    /\ \E i \in Peers : reported[i].kind = "forged"
    /\ Quorum(Cardinality({i \in Reporters("H1") : reported[i].kind = "genuine"}))

\* ---- C9
\* Claim C9: when a hash H has the quorum and every share is valid by itself
\* but the recovered common signature does not verify against the common
\* public key (a share among them is no share of the common key), the vote
\* returns false without raising, the call returns an empty list and the
\* stored voted hash stays what it was.
C9_BadCommonSignature ==
    (RoundOver /\ \A i \in Peers : ValidAnswer(i)) =>
        \A h \in AllHashes :
            (Quorum(Cardinality(Reporters(h)))
             /\ \E i \in Reporters(h) : reported[i].kind = "rogue") =>
                /\ round.outcome = "returned_false"
                /\ round.ret = <<>>
                /\ voted_hash_ = round.votedBefore
\* such a round, on an agent that holds a voted hash of an earlier round
C9_Witness ==
    /\ RoundOver /\ round.outcome = "returned_false"
    /\ \A i \in Peers : ValidAnswer(i)
    /\ \E i \in Peers : reported[i].kind = "rogue"
    /\ round.votedBefore[1] = "H1"

\* ---- C10
\* Claim C10: rounds are stateless: a call on an agent that has run earlier
\* rounds ends as on a fresh agent given the same answers: the returned list
\* has no endpoint twice and holds only nodes that reported the voted hash in
\* this round, and the quorum is one of answers of this round.
C10_RoundsAreStateless ==
    (RoundOver /\ Established) =>
        /\ Len(round.ret) = Cardinality(RetSet)
        /\ RetSet = {Endpoint(i) : i \in Reporters(voted_hash_[1])}
        /\ Quorum(Cardinality(Reporters(voted_hash_[1])))

\* ---- C11
\* Claim C11: with n nodes of which at most n/3 (rounded down) are
\* adversaries, each reporting a hash other than H with a share that is valid
\* by itself, and every other node but this one reporting H with a share of
\* the common key, the round establishes H as the voted hash.
Adversaries(h) == {i \in Peers : reported[i].hash # h}
C11_ByzantineThirdTolerated ==
    (RoundOver /\ round.first /\ \A i \in Peers : ValidAnswer(i)) =>
        \A h \in AllHashes :
            (/\ Cardinality(Adversaries(h)) <= n_ \div 3
             /\ \A i \in Peers \ Adversaries(h) : reported[i].kind = "genuine") =>
                (Established /\ voted_hash_[1] = h)

\* ---- C12
\* Claim C12: restoreSnapshot(b) on a snapshot b made by doSnapshot, with no
\* btrfs command failing, leaves every live volume holding what that volume
\* held when doSnapshot(b) cloned it, whatever was written to the live
\* volumes since.
C12_RestoreReproducesSnapshot ==
    (/\ lastOp.op = "restoreSnapshot" /\ lastOp.res = "ok"
     /\ \A v \in VolumeSet : taken[lastOp.b][v] # Absent) =>
        \A v \in VolumeSet : live[v] = taken[lastOp.b][v]

\* ---- C13
\* Claim C13: restoreSnapshot(b) for a snapshot b that is missing (never
\* made, or removed by removeSnapshot or leaveNLastSnapshots) raises
\* SnapshotAbsent(b) and leaves every live volume there and unchanged.
C13_RestoreOfMissingSnapshot ==
    [][\A b \in ManagedBlocks :
        (/\ lastOp'.op = "restoreSnapshot" /\ lastOp'.b = b
         /\ \/ ~SnapshotExists(b)
            \/ lastOp.op = "removeSnapshot" /\ lastOp.b = b /\ lastOp.res = "ok") =>
            (lastOp'.res = "SnapshotAbsent" /\ live' = live)]_vars

\* ---- C14
\* Claim C14: after leaveNLastSnapshots(n) has returned, the snapshots that
\* exist are block 0 (if it existed) and the min(n, others) snapshots of the
\* other blocks with the highest block numbers, as numbers (10 above 9);
\* every other snapshot is gone with its clones and its hash file; the kept
\* ones are as they were; and no call of leaveNLastSnapshots, whether it
\* returns or raises, removes or changes snapshot 0.
HighestOf(others, n) == {b \in others : Cardinality({c \in others : c > b}) < n}
C14_LeaveNLastKeepsHighest ==
    [][lastOp'.op = "leaveNLastSnapshots" =>
        /\ 0 \in snapDir =>
              (0 \in snapDir' /\ clone'[0] = clone[0] /\ hashFile'[0] = hashFile[0])
        /\ lastOp'.res = "ok" =>
              /\ snapDir' = (snapDir \cap {0}) \cup HighestOf(snapDir \ {0}, lastOp'.b)
              /\ \A b \in snapDir \ snapDir' :
                    clone'[b] = NoClones /\ hashFile'[b] = NoFile
              /\ \A b \in snapDir' :
                    clone'[b] = clone[b] /\ hashFile'[b] = hashFile[b]]_vars
\* leaveNLastSnapshots(1) has removed the snapshots of the two lower blocks
\* and kept those of block 0 and of the highest block
C14_Witness ==
    /\ lastOp.op = "leaveNLastSnapshots" /\ lastOp.res = "ok" /\ lastOp.b = 1
    /\ lastOp.ret = {HighBlock - 2, HighBlock - 1}
    /\ snapDir = {0, HighBlock}

\* ---- C15
\* Claim C15: getLatestSnapshot returns (current, previous), the highest and
\* the second highest block number of the snapshots other than block 0
\* (previous 0 when there is one only), and (0, 0) when there is none, for
\* every set of snapshots, with one and with three or more included.
LatestOf(others) == HighestOf(others, 1)
PreviousOf(others) == HighestOf(others, 2) \ LatestOf(others)
TheOne(S) == IF S = {} THEN 0 ELSE CHOOSE b \in S : TRUE
C15_LatestAreTwoHighest ==
    lastOp.op = "getLatestSnasphot" =>
        /\ lastOp.res = "ok"
        /\ lastOp.ret = <<TheOne(LatestOf(snapDir \ {0})), TheOne(PreviousOf(snapDir \ {0}))>>

\* ---- C16
\* Claim C16: makeOrGetDiff(b) is idempotent: when the diff file of b is
\* there (a call has made it), a call returns its path and neither sends nor
\* concatenates: the diff file, the part files and all else in the data
\* directory stay as they are, also when snapshot b has been removed since;
\* and a diff file that is there stays as it is until leaveNLastDiffs
\* removes it.
C16_MakeOrGetDiffIdempotent ==
    [][\A b \in ManagedBlocks :
        diffFile[b] # NoFile =>
            /\ lastOp'.op # "leaveNLastDiffs" => diffFile'[b] = diffFile[b]
            /\ (lastOp'.op = "makeOrGetDiff" /\ lastOp'.b = b) =>
                  (lastOp'.res = "ok" /\ lastOp'.ret = "path" /\ UNCHANGED fsVars)]_vars
\* a second makeOrGetDiff(b) has returned the diff made from a snapshot that
\* leaveNLastSnapshots has removed since
C16_Witness ==
    \E b \in ManagedBlocks :
        /\ lastOp = Call("makeOrGetDiff", b, "ok", "path")
        /\ ~SnapshotExists(b)
        /\ \E st \in diffFile[b] : Len(st) = Len(volumes)

\* ---- C17
\* Claim C17: when btrfs send fails for a volume during makeOrGetDiff(b),
\* whichever volume of the list it is, the call raises
\* CannotPerformBtrfsOperation and afterwards there is neither the diff file
\* of b nor a part file of b.
PartsOf(b) == {p \in partFile : p[1] = b}
C17_FailedSendLeavesNothing ==
    (lastOp.op = "makeOrGetDiff" /\ lastOp.res = "CannotPerformBtrfsOperation") =>
        (diffFile[lastOp.b] = NoFile /\ PartsOf(lastOp.b) = {})
\* the send of the last volume has failed on a snapshot with all its clones,
\* after the part file of the first volume was written
C17_Witness ==
    /\ lastOp.op = "makeOrGetDiff" /\ lastOp.res = "CannotPerformBtrfsOperation"
    /\ \A v \in VolumeSet : clone[lastOp.b][v] # Absent
    /\ writable = {}


\* Claim C18: on a node that downloaded diffs/b from an origin node, where
\* snapshot b was made by doSnapshot and hashed with is_checking = false,
\* once importDiff(b) has made snapshot b and computeSnapshotHash(b, true)
\* has returned, the hash written for b is what getSnapshotHash(b) gave on
\* the origin node.
C18_ImportedHashEqualsOrigin ==
    (/\ origin # NoOrigin
     /\ SnapshotExists(origin.b)
     /\ taken[origin.b] = NoClones
     /\ hashedBy[origin.b] = "check"
     /\ lastOp.op = "computeSnapshotHash" /\ lastOp.b = origin.b /\ lastOp.res = "ok")
    => hashFile[origin.b] = origin.hash


\* a call of importDiff( b ) has just been made
ImportDiffStep(b) == lastOp'.op = "importDiff" /\ lastOp'.b = b

\* Claim C19, as stated: every importDiff(b) called while snapshot b exists
\* raises SnapshotPresent and leaves the data directory as it is, and every
\* importDiff(b) without a regular diff file raises InvalidPath and makes no
\* snapshot directory.
C19_ImportDiffRefusals ==
    [][\A b \in ManagedBlocks : ImportDiffStep(b) =>
          /\ SnapshotExists(b) =>
                (lastOp'.res = "SnapshotPresent" /\ UNCHANGED fsVars)
          /\ diffFile[b] = NoFile =>
                (lastOp'.res = "InvalidPath" /\ snapDir' = snapDir)]_vars

\* Claim C19, amended: importDiff(b) called while snapshot b exists and
\* diffs/b is a regular file raises SnapshotPresent and leaves the data
\* directory as it is; importDiff(b) without a regular diff file raises
\* InvalidPath, whether or not snapshot b exists, and leaves the data
\* directory as it is.
C19_ImportDiffRefusalsInOrder ==
    [][\A b \in ManagedBlocks : ImportDiffStep(b) =>
          /\ (SnapshotExists(b) /\ diffFile[b] # NoFile) =>
                (lastOp'.res = "SnapshotPresent" /\ UNCHANGED fsVars)
          /\ diffFile[b] = NoFile =>
                (lastOp'.res = "InvalidPath" /\ UNCHANGED fsVars)]_vars

\* importDiff(b) has refused a diff file because snapshot b is there
C19_Witness ==
    \E b \in ManagedBlocks :
        /\ lastOp = Call("importDiff", b, "SnapshotPresent", "none")
        /\ SnapshotExists(b)
        /\ diffFile[b] # NoFile


\* Claim C20: the hash written for a snapshot stays: when snapshot_hash.txt
\* of b is there, a computeSnapshotHash(b, is_checking), for either
\* is_checking, returns and leaves the hash file, the read-only property of
\* every clone and every sidecar as they are; a getSnapshotHash(b) returns
\* what the file holds; and no call changes the file while the snapshot
\* directory of b is there.
C20_PersistedHashImmutable ==
    [][\A b \in ManagedBlocks : hashFile[b] # NoFile =>
          /\ (lastOp'.op = "computeSnapshotHash" /\ lastOp'.b = b) =>
                (lastOp'.res = "ok" /\ UNCHANGED fsVars)
          /\ (lastOp'.op = "getSnapshotHash" /\ lastOp'.b = b) =>
                (lastOp'.res = "ok" /\ lastOp'.ret = hashFile[b])
          /\ SnapshotExists(b)' => hashFile'[b] = hashFile[b]]_vars

\* computeSnapshotHash(b) has been called on a snapshot whose hash was there
C20_Witness ==
    \E b \in ManagedBlocks :
        /\ lastOp = Call("computeSnapshotHash", b, "ok", "present")
        /\ hashFile[b] # NoFile


\* Claim C21: between the calls of the manager every clone of every snapshot
\* that is there is read-only: a computeSnapshotHash(b) that has returned or
\* raised has set ro = true again on every clone of b.
C21_ClonesReadOnlyBetweenCalls ==
    \A b \in ManagedBlocks : \A v \in VolumeSet :
        (SnapshotExists(b) /\ clone[b][v] # Absent) => <<b, v>> \notin writable


\* the file storage clone of snapshot b, and what was written to the digest
\* that snapshot_hash.txt of b holds
TreeOf(b) == CHOOSE t \in clone[b]["filestorage"] : TRUE
CtxOf(hf) == (CHOOSE d \in hf : TRUE).sha256
Folded(ctx) == {ctx[i] : i \in 1..Len(ctx)}
\* a computeSnapshotHash( b, false ) that walked the tree has just returned
BuildPassStep(b) ==
    /\ lastOp' = Call("computeSnapshotHash", b, "ok", "none")
    /\ hashedBy'[b] = "build"

\* Claim C22, as stated: a build pass over a regular file that has no
\* sidecar writes the sidecar (hash of path and hash of content) and does
\* not write the file's hash to the running digest of that pass.
C22_BuildPassSkipsFileWithoutSidecar ==
    [][\A b \in ManagedBlocks :
          (BuildPassStep(b) /\ TreeOf(b).sidecar["file"] = NoFile) =>
              /\ TreeOf(b)'.sidecar["file"] =
                     Holding(FileHash(PathOf(b, "file"), TreeOf(b).data))
              /\ FileHash(PathOf(b, "file"), TreeOf(b).data)
                     \notin Folded(CtxOf(hashFile'[b]))]_vars

\* Claim C22, amended: a build pass over a regular file that has no sidecar
\* writes the sidecar (hash of path and hash of content) and writes that
\* hash to the running digest in the same pass; over a file that has a
\* sidecar it writes what the sidecar holds to the digest and leaves the
\* sidecar as it is.
C22_BuildPassFoldsEveryFile ==
    [][\A b \in ManagedBlocks : BuildPassStep(b) =>
          /\ TreeOf(b).sidecar["file"] = NoFile =>
                /\ TreeOf(b)'.sidecar["file"] =
                       Holding(FileHash(PathOf(b, "file"), TreeOf(b).data))
                /\ FileHash(PathOf(b, "file"), TreeOf(b).data)
                       \in Folded(CtxOf(hashFile'[b]))
          /\ TreeOf(b).sidecar["file"] # NoFile =>
                /\ TreeOf(b)'.sidecar["file"] = TreeOf(b).sidecar["file"]
                /\ TreeOf(b).sidecar["file"] \subseteq Folded(CtxOf(hashFile'[b]))]_vars

\* the first call on a fresh snapshot, whose file storage came without
\* sidecars, was a build pass: the hash of the file is in the digest
C22_Witness ==
    \E b \in ManagedBlocks :
        /\ lastOp = Call("computeSnapshotHash", b, "ok", "none")
        /\ hashedBy[b] = "build"
        /\ callsLeft = MaxCalls - 2
        /\ \E t \in taken[b]["filestorage"] : t.sidecar = NoSidecars
        /\ FileHash(PathOf(b, "file"), TreeOf(b).data) \in Folded(CtxOf(hashFile[b]))


\* the sidecars a file storage tree of snapshot b can come with: none,
\* fresh ones, or stale ones (written for another content or under the
\* path of another snapshot)
SidecarHashes(b) ==
    {FileHash(PathOf(c, "file"), d) : c \in ManagedBlocks, d \in 0..MaxContent}
        \cup {DirectoryHash(PathOf(c, "dir")) : c \in ManagedBlocks}
SidecarStates(b) == [Entries -> {NoFile} \cup {Holding(h) : h \in SidecarHashes(b)}]
\* what a pass with is_checking = true over the file storage of b writes to
\* the digest, and what a second such pass over the tree it left writes
CheckPass(b, order, sc) ==
    proceedFileSystemDirectory(1, order, b, TreeOf(b).data, sc, <<>>, TRUE)
SecondCheckPass(b, order, again, sc) ==
    proceedFileSystemDirectory(1, again, b, TreeOf(b).data,
                               CheckPass(b, order, sc).sidecar, <<>>, TRUE)

\* Claim C23: with is_checking = true what the walk over the file storage
\* of a snapshot writes to the digest is given by the paths and the contents
\* alone: two walks over the same paths and contents write the same,
\* whatever sidecars each finds, and a second walk writes what the first did.
C23_CheckDigestOfPathsAndContentsOnly ==
    \A b \in ManagedBlocks :
        (SnapshotExists(b) /\ clone[b]["filestorage"] # Absent) =>
            \A o1 \in TraversalOrders, o2 \in TraversalOrders :
                \A sc1 \in SidecarStates(b), sc2 \in SidecarStates(b) :
                    /\ CheckPass(b, o1, sc1).ctx = CheckPass(b, o2, sc2).ctx
                    /\ SecondCheckPass(b, o1, o2, sc1).ctx = CheckPass(b, o1, sc1).ctx


\* the thread that called getNodesToDownloadSnapshotFrom has just voted
VoteStep == phase = "Collecting" /\ phase' = "Done"
FailedOutcomes == {"verification_error", "not_enough_votes", "returned_false"}

\* Claim C24: getVotedHash gives the hash and the common signature of the
\* last round that returned nodes: a round that ends in a verification
\* error, without enough votes or with a common signature that does not
\* verify leaves the pair as the round before left it, and so does every
\* step that is no vote; a round that returns nodes writes the hash it chose
\* with a common signature that verifies.
C24_VotedHashOfLastSuccess ==
    [][/\ (VoteStep /\ round'.outcome \in FailedOutcomes) => getVotedHash' = getVotedHash
       /\ ~VoteStep => getVotedHash' = getVotedHash
       /\ (VoteStep /\ round'.outcome = "returned") =>
              /\ getVotedHash'[1] = Winner
              /\ VerificationCommon(Winner, getVotedHash'[2])]_vars

\* a second round has failed after a first that returned nodes, and the pair
\* is still the one of the first
C24_Witness ==
    /\ phase = "Done"
    /\ round.outcome \in FailedOutcomes
    /\ round.votedBefore # <<ZeroHash, ZeroG1>>
    /\ getVotedHash = round.votedBefore


\* the slot of node i: its hash, its signature share, its public key share
Slot(i) == <<hashes_[i], signatures_[i], public_keys_[i]>>
\* the ordinals of the chain checked with its threads followed write by write
ThreadOrdinals == 0..(NSmall - 1)

\* Claim C25: the vote starts only when every thread of the round has ended:
\* no slot is written once verifyAllData and the tally have begun to read
\* (a slot changes only while the caller is still collecting), the slot of
\* node i is written by the thread of node i alone, one thread at a time,
\* and a slot of which only a part has been written is never read.
C25_VoteAfterAllWrites ==
    /\ [](phase = "Done" => \A i \in ThreadOrdinals : task[i] \in {"none", "done"})
    /\ [](\A i \in ThreadOrdinals : \A j \in ThreadOrdinals :
             (HoldsMutex(i) /\ HoldsMutex(j)) => i = j)
    /\ [][\A i \in ThreadOrdinals : Slot(i)' # Slot(i) =>
             /\ phase = "Collecting" /\ phase' = "Collecting"
             /\ task[i] \in {"running", "hash_written", "signature_written"}
             /\ task'[i] # task[i]
             /\ \A j \in ThreadOrdinals \ {i} : Slot(j)' = Slot(j)]_vars
    /\ [][VoteStep => \A i \in ThreadOrdinals : ~HoldsMutex(i)]_vars

\* the vote has been taken after every thread wrote the three fields of its
\* slot
C25_Witness ==
    /\ phase = "Done"
    /\ \A i \in Peers :
        /\ task[i] = "done"
        /\ reported[i] \in Answers
        /\ Slot(i) = <<reported[i].hash, SignatureOf(i, reported[i]),
                       PublicKeyOf(i, reported[i])>>


\* Claim C26: a round comes to its end exactly when every thread it started
\* ends. When every peer answers or makes its call raise, and the threads
\* get to run, a round that was started comes to its vote, whose outcome is
\* a return or an exception; once the peer of one node never answers, the
\* caller stays where it waits for the threads and no vote is taken,
\* whatever the other peers reported.
C26_RoundEndsIffThreadsEnd ==
    /\ (phase = "Collecting") ~>
           (phase = "Done" \/ \E i \in ThreadOrdinals : task[i] = "hung")
    /\ \A i \in ThreadOrdinals : [](task[i] = "hung" => [](phase = "Collecting"))

\* one peer never answered, all the other threads have ended, and the caller
\* still waits
C26_Witness ==
    /\ phase = "Collecting"
    /\ \E i \in Peers :
        /\ task[i] = "hung"
        /\ \A j \in Peers \ {i} : task[j] = "done" /\ reported[j] \in Answers


\* the least k with d * k >= a: a / d rounded up
Ceiling(a, d) == CHOOSE k \in 0..a : d * k >= a /\ d * (k - 1) < a

\* Claim C27: for every node count n >= 1 the threshold handed to the
\* signature scheme, ( 2 * n + 2 ) / 3 in integer division, is 2n/3 rounded
\* up; so it is for the n_ of every chain a round is run on.
C27_ThresholdIsCeiling ==
    /\ \A n \in 1..MaxCount : Threshold(n) = Ceiling(2 * n, 3)
    /\ n_ >= 1 => Threshold(n_) = Ceiling(2 * n_, 3)

\* a round has recovered the common signature from no fewer shares than the
\* threshold of its scheme
C27_Witness ==
    /\ phase = "Done"
    /\ round.outcome = "returned"
    /\ Len(nodes_to_download_snapshot_from_) >= Threshold(n_)
    /\ Threshold(n_) = Ceiling(2 * n_, 3)


\* Claim C28: hashBase() of a store is given by the key/value pairs it
\* holds: two stores that hold the same pairs, and answer every lookup
\* alike, have the same hashBase(), however the pairs came to lie in the
\* pieces and however often each store was rotated.
C28_HashBaseOfPairsOnly ==
    (/\ StoredPairs(stores[1]) = StoredPairs(stores[2])
     /\ \A k \in Keys : lookup(stores[1], k) = lookup(stores[2], k))
    => hashBaseOfStore(stores[1]) = hashBaseOfStore(stores[2])


\* the reading thread has been given a hash by getSnapshotHash
ReaderGotHash == hashIo.seen.op = "getSnapshotHash" /\ hashIo.seen.res = "ok"
\* the reading thread has been told, by isSnapshotHashPresent or inside
\* getSnapshotHash, that the hash file of b is there
ReaderToldPresent(b) ==
    /\ hashIo.seen.b = b
    /\ \/ hashIo.seen.res = "running"
       \/ /\ hashIo.seen.op = "isSnapshotHashPresent"
          /\ hashIo.seen.res = "ok"
          /\ hashIo.seen.ret = "true"

\* Claim C29: the accesses to the hash file go through one lock: a thread
\* that calls getSnapshotHash(b) or isSnapshotHashPresent(b) while another
\* is in computeSnapshotHash(b) is told that the hash is not there (false,
\* CannotRead) or is given the whole hash that computeSnapshotHash wrote; it
\* never finds the file made but not yet written.
C29_ReaderSeesNoneOrWhole ==
    /\ [](ReaderGotHash =>
             /\ hashIo.seen.ret # Holding(DefaultHash)
             /\ Complete(hashIo.seen.ret)
             /\ hashIo.seen.ret = hashFile[hashIo.seen.b])
    /\ [][\A b \in ManagedBlocks : ReaderToldPresent(b)' => Complete(hashFile[b])]_vars

\* while the writing thread holds the lock on the file it has just made, the
\* reading thread has been told that the hash of that snapshot is not there
C29_Witness ==
    /\ hashIo.writer.pc = "opened"
    /\ hashFile[hashIo.writer.b] = Holding(Unwritten)
    /\ hashIo.seen.b = hashIo.writer.b
    /\ \/ hashIo.seen = Call("isSnapshotHashPresent", hashIo.writer.b, "ok", "false")
       \/ hashIo.seen = Call("getSnapshotHash", hashIo.writer.b, "CannotRead", "none")


\* a call of getSnapshotHash( b ) or isSnapshotHashPresent( b ) has just ended
HashQueryStep(b) ==
    lastOp'.b = b /\ lastOp'.op \in {"getSnapshotHash", "isSnapshotHashPresent"}

\* Claim C30: getSnapshotHash(b) and isSnapshotHashPresent(b) raise
\* SnapshotAbsent when the snapshot directory of b is not there; when it is
\* there without a hash file, isSnapshotHashPresent(b) returns false and
\* getSnapshotHash(b) raises CannotRead and returns no hash; neither call
\* changes anything in the data directory.
C30_HashQueriesOnMissing ==
    [][\A b \in ManagedBlocks : HashQueryStep(b) =>
          /\ UNCHANGED <<fsVars, taken, hashedBy>>
          /\ ~SnapshotExists(b) => lastOp'.res = "SnapshotAbsent"
          /\ (SnapshotExists(b) /\ hashFile[b] = NoFile) =>
                IF lastOp'.op = "isSnapshotHashPresent"
                THEN lastOp'.res = "ok" /\ lastOp'.ret = "false"
                ELSE lastOp'.res = "CannotRead" /\ lastOp'.ret = "none"]_vars

\* getSnapshotHash(b) has raised CannotRead on a snapshot without hash file
C30_Witness ==
    \E b \in ManagedBlocks :
        /\ lastOp = Call("getSnapshotHash", b, "CannotRead", "none")
        /\ SnapshotExists(b)
        /\ hashFile[b] = NoFile

\* ---- C31
\* the blocks whose diff file is there
DiffsPresent == {b \in DOMAIN diffFile : diffFile[b] # NoFile}
Smaller(a, b) == IF a < b THEN a ELSE b

\* Claim C31: after leaveNLastDiffs(n) the diff files that exist are exactly
\* the min(n, total) diffs with the highest block numbers of those that
\* existed, each as it was, the diff of block 0 being treated as any other;
\* the call returns, and no snapshot directory, clone, hash file or live
\* volume is affected.
C31_LeaveNLastDiffsKeepsHighest ==
    [][lastOp'.op = "leaveNLastDiffs" =>
        /\ lastOp'.res = "ok"
        /\ DiffsPresent' = HighestOf(DiffsPresent, lastOp'.b)
        /\ Cardinality(DiffsPresent') = Smaller(lastOp'.b, Cardinality(DiffsPresent))
        /\ \A b \in DiffsPresent' : diffFile'[b] = diffFile[b]
        /\ UNCHANGED <<live, snapDir, clone, hashFile, partFile, writable>>]_vars
\* leaveNLastDiffs(1) has removed the diff of block 0 and kept the one of
\* the highest block, both snapshots being there
C31_Witness ==
    /\ lastOp.op = "leaveNLastDiffs" /\ lastOp.res = "ok" /\ lastOp.b = 1
    /\ lastOp.ret = {0}
    /\ DiffsPresent = {MaxBlock}
    /\ {0, MaxBlock} \subseteq snapDir

\* ---- C32
\* Claim C32: whenever getNodesToDownloadSnapshotFrom has returned a list
\* that is not empty, the assertion of getVotedHash holds: the voted hash is
\* not the all-zero hash and the voted signature is not the zero point, also
\* when the quorum of the round reported the all-zero hash with valid shares.
C32_AssertionHoldsAfterReturn ==
    (RoundOver /\ Established /\ round.ret # <<>>) => getVotedHashAssertion

\* ---- C33
\* what the round has pushed to nodes_to_download_snapshot_from_
AddedToList ==
    SubSeq(nodes_to_download_snapshot_from_, Len(round.listBefore) + 1,
           Len(nodes_to_download_snapshot_from_))
TalliedRound == RoundOver /\ round.outcome \in {"returned", "returned_false"}

\* Claim C33: at most one hash has a count k with 3k > 2n in the tally, so
\* that the hash the vote works on does not depend on the order of the map;
\* and the nodes a round adds to the download list are exactly the nodes
\* counted for that hash, once each (none when the round ends before or at
\* the tally).
C33_OneQuorumHash ==
    /\ Cardinality(Candidates) <= 1
    /\ TalliedRound =>
          /\ Candidates = {Winner}
          /\ Len(AddedToList) = Cardinality(SlotHolders(Winner))
          /\ {AddedToList[j] : j \in 1..Len(AddedToList)} = SlotHolders(Winner)
          /\ Established => voted_hash_[1] = Winner
    /\ (RoundOver /\ ~TalliedRound) => AddedToList = <<>>
\* a round has established H1 on the slots of all other nodes but one, which
\* holds H2, and has added those nodes only
C33_Witness ==
    /\ RoundOver /\ Established /\ voted_hash_[1] = "H1"
    /\ Cardinality(SlotHolders("H1")) = n_ - 2
    /\ Cardinality(SlotHolders("H2")) = 1
    /\ Len(AddedToList) = n_ - 2

\* ---- C34
\* the two vectors the round handed to LagrangeCoeffs and SignatureRecover
RoundIdx == idx(Contributors(0, Winner))
RoundSignatures == signatures(Contributors(0, Winner))

\* Claim C34: the index list and the share list that voteForHash hands to
\* LagrangeCoeffs and SignatureRecover have the same length k, which is at
\* least the threshold t = ceil(2n/3) the scheme was made with; entry j of
\* the one is i + 1 and entry j of the other is the share in the slot of the
\* same node i, a node counted for the chosen hash; no index is there twice,
\* and the index of this node is never among them.
C34_RecoverInputsAligned ==
    TalliedRound =>
        /\ Len(RoundIdx) = Len(RoundSignatures)
        /\ Len(RoundIdx) >= Threshold(n_)
        /\ Threshold(n_) = Ceiling(2 * n_, 3)
        /\ ~RecoverThrows(RoundIdx)
        /\ \A j \in 1..Len(RoundIdx) :
              \E i \in SlotHolders(Winner) :
                  /\ RoundIdx[j] = i + 1
                  /\ RoundSignatures[j] = signatures_[i]
                  /\ AddedToList[j] = i
        /\ \A j, k \in 1..Len(RoundIdx) : RoundIdx[j] = RoundIdx[k] => j = k
        /\ \A j \in 1..Len(RoundIdx) : RoundIdx[j] # SelfIndex + 1
\* a round of a chain of six nodes has recovered the common signature from
\* the shares of the five other nodes
C34_Witness ==
    /\ RoundOver /\ Established /\ n_ = MaxNodes
    /\ Len(RoundIdx) = MaxNodes - 1
    /\ \A i \in Peers : reported[i].kind = "genuine"

\* ---- C35
\* Claim C35: this node, one of the n nodes, is left out of the tally while
\* the quorum is measured against n: with n <= 3 no round establishes a
\* voted hash (every round ends in an exception), and with n = 4 a round
\* succeeds only if the slots of all three other nodes hold the same hash,
\* which in the first round of an agent all three have reported.
C35_SmallChainsNeedEveryPeer ==
    (RoundOver /\ SelfIndex \in Ordinals) =>
        /\ n_ <= 3 =>
              /\ round.outcome \in {"not_enough_votes", "verification_error"}
              /\ voted_hash_ = round.votedBefore
        /\ (n_ = 4 /\ Established) =>
              /\ SlotHolders(voted_hash_[1]) = Peers
              /\ Cardinality(Peers) = 3
              /\ round.first => Reporters(voted_hash_[1]) = Peers
\* a chain of four nodes has established H1, reported by all three others
C35_Witness ==
    /\ RoundOver /\ Established /\ n_ = 4 /\ round.first
    /\ Reporters("H1") = Peers
    /\ voted_hash_[1] = "H1"

\* ---- C36
\* Claim C36: a doSnapshot(b) that fails because the clone of a volume fails
\* leaves no snapshot b behind: afterwards the snapshot directory of b is
\* not there and no clone of b is, so that a doSnapshot(b) called again does
\* not raise SnapshotPresent and leaveNLastSnapshots and getLatestSnasphot
\* do not count b.
C36_FailedDoSnapshotLeavesNothing ==
    (lastOp.op = "doSnapshot" /\ lastOp.res = "CannotPerformBtrfsOperation") =>
        (~SnapshotExists(lastOp.b) /\ clone[lastOp.b] = NoClones
         /\ lastOp.b \notin NumberKeys)

\* ---- C37
\* Claim C37: an importDiff(b) that fails in btrfs receive removes the
\* snapshot directory it made: afterwards snapshot b does not exist and has
\* no clone, the diff file of b is there as it was, and an importDiff(b)
\* called again is not refused with SnapshotPresent.
C37_FailedReceiveLeavesNoSnapshot ==
    [][\A b \in ManagedBlocks :
        (ImportDiffStep(b) /\ lastOp'.res = "CannotPerformBtrfsOperation") =>
            /\ ~SnapshotExists(b)'
            /\ clone'[b] = NoClones
            /\ diffFile'[b] # NoFile /\ diffFile'[b] = diffFile[b]
            /\ importDiffRefusal(b)' = "none"
            /\ UNCHANGED fsVars]_vars
\* importDiff(b) has failed in the receive of a complete diff, and neither
\* the snapshot directory nor a clone of b is there
C37_Witness ==
    \E b \in ManagedBlocks :
        /\ lastOp = Call("importDiff", b, "CannotPerformBtrfsOperation", "none")
        /\ \E st \in diffFile[b] : Len(st) = Len(volumes)
        /\ ~SnapshotExists(b)
        /\ clone[b] = NoClones

\* ---- C38
\* Claim C38: a file diffs/b is there only when it is a completely assembled
\* diff: after a makeOrGetDiff(b) that raised, be it for the missing
\* snapshot, for a failed send or for a failed concatenation, there is no
\* file diffs/b that a later makeOrGetDiff(b) would return as the diff made
\* earlier, and no part file of b.
C38_RaisedMakeOrGetDiffLeavesNoFile ==
    (lastOp.op = "makeOrGetDiff" /\ lastOp.res # "ok") =>
        (~DiffCached(lastOp.b) /\ PartsOf(lastOp.b) = {})

\* ---- C39
\* a computeSnapshotHash( b, is_checking ) that walked the tree has returned
HashPassStep(b) == lastOp' = Call("computeSnapshotHash", b, "ok", "none")
\* the walk over the file storage of b as it is without any sidecar
FreshPass(b, order, is_checking) ==
    proceedFileSystemDirectory(1, order, b, TreeOf(b).data, NoSidecars, <<>>, is_checking)

\* Claim C39: over a file storage tree without sidecars a pass in build mode
\* and a pass in check mode that visit the entries in the same order give
\* the same digest and leave the same sidecars: whichever of the two a
\* computeSnapshotHash(b) ran as, the hash it wrote and the tree it left are
\* those of the other mode in the order it took.
C39_BuildEqualsCheckWithoutSidecars ==
    [][\A b \in ManagedBlocks :
          (HashPassStep(b) /\ TreeOf(b).sidecar = NoSidecars) =>
              /\ \A o \in TraversalOrders :
                    computeAllVolumesHash(b, o, FALSE) = computeAllVolumesHash(b, o, TRUE)
              /\ \E o \in TraversalOrders : \A m \in BOOLEAN :
                    /\ hashFile'[b] = Holding(SnapshotDigest(computeAllVolumesHash(b, o, m).ctx))
                    /\ clone'[b] = computeAllVolumesHash(b, o, m).cl
                    /\ \A e \in Entries : TreeOf(b)'.sidecar[e] # NoFile]_vars
\* the first call on a fresh snapshot, whose file storage came without
\* sidecars, was a check pass: the hash written holds what a build pass in
\* the same order writes, and the sidecars are those a build pass leaves
C39_Witness ==
    \E b \in ManagedBlocks :
        /\ lastOp = Call("computeSnapshotHash", b, "ok", "none")
        /\ hashedBy[b] = "check"
        /\ callsLeft = MaxCalls - 2
        /\ \E t \in taken[b]["filestorage"] : t.sidecar = NoSidecars
        /\ \E o \in TraversalOrders :
              /\ Folded(FreshPass(b, o, FALSE).ctx) \subseteq Folded(CtxOf(hashFile[b]))
              /\ CtxOf(hashFile[b]) = computeAllVolumesHash(b, o, TRUE).ctx
              /\ TreeOf(b).sidecar = FreshPass(b, o, FALSE).sidecar

\* ---- C40
\* as many threads have come to the tracepoint since break_on_tracepoint as
\* its count asked for
CountReached == tracer.arrived >= tracer.needed_waiting_count

\* Claim C40: after break_on_tracepoint(name, count) a wait_for_tracepoint(
\* name) returns once count threads have reached tracepoint(name), in every
\* interleaving, the one in which the count-th thread arrives before the
\* caller waits included; and every thread blocked at the tracepoint runs
\* on after continue_on_tracepoint(name).
C40_WaitReturnsOnceCountReached ==
    /\ (tracer.caller = "waiting" /\ CountReached) ~> (tracer.caller = "returned")
    /\ \A t \in TracerThreads :
          (tracer.thread[t] = "woken") ~> (tracer.thread[t] = "running" \/ Aborted)

====
